---- MODULE Spec2Model ----
(***************************************************************************)
(* A model of the Candy compiler and VM (JonasWanke/candy): the reference- *)
(* counted heap, the struct parser and its formatter, the MIR optimizer    *)
(* driver, module-cycle recovery, the MIR-to-LIR compiler, the tracers,    *)
(* channels and fibers.  Every subsystem has its own variables and its own *)
(* specification; the variables of the other subsystems stay idle.         *)
(***************************************************************************)
EXTENDS Integers, Sequences, FiniteSets, TLC

VARIABLES
    \* ---- heap (compiler/vm/src/heap) ----
    objects,                \* Heap::objects: the addresses registered in the heap
    reference_count,        \* the count word of every object
    is_reference_counted,   \* the header flag of every object
    captured,               \* HeapClosure::captured of every object (<<>> for texts)
    held,                   \* references the VM holds on its stack, per object
    heapLast,               \* the last heap operation and its object
    \* ---- parser (compiler/frontend/src/string_to_rcst) ----
    parseInput,             \* the input string, a sequence of characters
    parseIndentation,       \* the indentation struct_ is called with
    parseResult,            \* what struct_ returned, once it has run
    \* ---- MIR optimizer (compiler/frontend/src/mir_optimize) ----
    optOriginal,            \* the body of the module before Mir::optimize
    optBody,                \* Mir::body
    optIndex,               \* index of the loop of optimize_body
    optVisible,             \* Context::visible: ID -> expression
    optPhase,               \* "body" while optimize_body runs, then "done"
    \* ---- module cycles (mir_optimize/mod.rs, vm/src/mir_to_lir.rs) ----
    cycUses,                \* the modules every module uses, in the order of its use expressions
    cycExisting,            \* the modules whose source exists
    cycStack,               \* the optimized_mir queries that are running, the innermost last
    cycMemo,                \* the results of the optimized_mir queries that have returned
    cycRecovered,           \* the requests for a module whose query was running, and what they returned
    cycRequests,            \* how many requests the cache has served
    cycLir,                 \* what compile_lir got for the compiled module, once it has it
    \* ---- MIR to LIR (compiler/vm/src/mir_to_lir.rs) ----
    lirFunction,            \* the function that compile_function compiles: frame and body
    lirContext,             \* LoweringContext: lir, constants, stack, instructions
    lirBefore,              \* the LoweringContext before the last step
    lirIndex,               \* how many expressions of the body are compiled
    lirPhase,               \* body while the expressions are compiled, then done
    \* ---- heaps and handles (compiler/vm/src/heap/mod.rs) ----
    hpHeaps,                \* the heaps: Heap::objects and Heap::handle_refcounts of each
    hpData,                 \* the header and the content of every allocated object
    hpStack,                \* the handle objects on the data stack of the fiber that owns each heap
    hpMapping,              \* the mapping the last Heap::clone returned
    hpPanicked,             \* a dup or a drop of a handle panicked
    hpLast,                 \* the last operation on the heaps
    \* ---- AST to HIR (compiler/frontend/src/ast_to_hir.rs) ----
    hirAsts,                \* the ASTs of the module that compile has lowered
    hirContext,             \* Context: id_mapping, public_identifiers, body, id_prefix, identifiers, is_top_level
    hirPhase,               \* compile while Context::compile runs, then done
    \* ---- tracers (compiler/vm/src/tracer, language_server/src/debug_adapter/tracer.rs) ----
    trKind,                 \* which tracer the fiber runs with: evaluated or debug
    trHeap,                 \* the heap of the fiber: objects, their counts, and the dups and drops the tracer made
    evaluated_values,       \* EvaluatedValuesTracer::evaluated_values, pairs of an ID and a value
    root_locals,            \* DebugTracer::root_locals
    call_stack,             \* DebugTracer::call_stack
    trEvents,               \* how many events the tracer got
    trPhase,                \* running, finished (the VM dropped its references), released (the tracer is discarded)
    \* ---- traced calls of the fibers of a VM ----
    clFrames,               \* per fiber, the open calls: how each was entered
    clPending,              \* per fiber, the trace instruction that comes next
    clStatus,               \* per fiber, its status
    clEvents,               \* FullTracer::events
    clStack,                \* per fiber, DebugTracer::call_stack
    clUnwrapFailed,         \* a tracer popped an empty stack
    \* ---- a channel of a VM and the service that receives from it (compiler/cli/src/main.rs) ----
    channel,                \* the channel: capacity, buffer, pending_sends, pending_receives
    completed_operations,   \* Vm::completed_operations, the completed operations nobody has taken yet
    chSent,                 \* the packets in the order their sends were enqueued
    chReceived,             \* the packets in the order receives completed with them
    chNextOperation,        \* the next operation ID
    current_receive,        \* StdoutService::current_receive
    chPrinted,              \* what the service printed
    \* ---- the fibers of a VM ----
    fbStatus,               \* per fiber, its status
    fbParent,               \* per fiber, the fiber that waits for it (itself for the root fiber)
    fbSpawnedBy,            \* per fiber, how it spawned its children: parallel or try
    fbInstructions,         \* per fiber, how many instructions it has executed
    \* ---- default symbols (compiler/vm/src/heap/mod.rs) ----
    sySymbols,              \* Heap::default_symbols of the current heap: a text object per field
    syHeap,                 \* the current heap: how many times the first one was cloned
    syGet,                  \* the last DefaultSymbols::get: its text and what it returned
    \* ---- whitespace and comments between tokens (new-new-packages/compiler/src/compiler/string_to_cst.rs) ----
    wsInput,                \* the input of whitespaces_and_newlines
    wsIndentation,          \* its indentation
    wsAlsoComments,         \* its also_comments
    wsResult,               \* what it returned: the remaining input and the parts
    \* ---- the hints server (compiler/language_server/src/features_candy/hints/mod.rs) ----
    incoming_events,        \* the channel of the events: its queue, whether the receiver closed it, whether a sender is left
    hints_finders,          \* the modules that have a hints finder
    outgoing_diagnostics,   \* OutgoingCache::last_sent of the diagnostics
    outgoing_hints,         \* OutgoingCache::last_sent of the hints
    hsPosition,             \* where run_server is: sleep, events, round, stopped
    hsClient,               \* per kind and module, how many notifications the client got and the last one
    hsLast,                 \* the last step of the server: the event or the round, and what it gave to send
    hsSent,                 \* how many events were sent to the server
    \* ---- the loop of the CLI that runs the main function (compiler/cli/src/main.rs) ----
    cliVm,                  \* the VM: its channels, completed_operations and the next operation ID
    cliFiber,               \* the fiber of the main function: its status, the operation it waits for, what it does then, its steps
    cliStdout,              \* StdoutService::current_receive
    cliStdin,               \* StdinService::current_receive
    cliPosition,            \* where the loop is: status, run, stdout, stdin, ended
    cliPrinted              \* how many packets the stdout service printed

heapVars == <<objects, reference_count, is_reference_counted, captured, held, heapLast>>
parseVars == <<parseInput, parseIndentation, parseResult>>

optVars == <<optOriginal, optBody, optIndex, optVisible, optPhase>>

cycleVars == <<cycUses, cycExisting, cycStack, cycMemo, cycRecovered, cycRequests, cycLir>>

lirVars == <<lirFunction, lirContext, lirBefore, lirIndex, lirPhase>>

handleVars == <<hpHeaps, hpData, hpStack, hpMapping, hpPanicked, hpLast>>

hirVars == <<hirAsts, hirContext, hirPhase>>

traceVars == <<trKind, trHeap, evaluated_values, root_locals, call_stack, trEvents, trPhase>>

callVars == <<clFrames, clPending, clStatus, clEvents, clStack, clUnwrapFailed>>

channelVars == <<channel, completed_operations, chSent, chReceived, chNextOperation, current_receive, chPrinted>>

fiberVars == <<fbStatus, fbParent, fbSpawnedBy, fbInstructions>>

symbolVars == <<sySymbols, syHeap, syGet>>

whitespaceVars == <<wsInput, wsIndentation, wsAlsoComments, wsResult>>

hintsVars == <<incoming_events, hints_finders, outgoing_diagnostics, outgoing_hints, hsPosition, hsClient, hsLast, hsSent>>

cliVars == <<cliVm, cliFiber, cliStdout, cliStdin, cliPosition, cliPrinted>>

vars == <<heapVars, parseVars, optVars, cycleVars, lirVars, handleVars, hirVars, traceVars, callVars, channelVars, fiberVars, symbolVars, whitespaceVars, hintsVars, cliVars>>

(***************************************************************************)
(* Bounds of the model.                                                    *)
(***************************************************************************)
MaxObjects == 3
MaxCount == 3
MaxCaptured == 2
MaxLen == 5

Addr == 1..MaxObjects

\* Sequences over S of length at most n.
SeqUpTo(S, n) == UNION {[1..k -> S] : k \in 0..n}

\* How often x occurs in the sequence s.
CountIn(s, x) == Cardinality({i \in DOMAIN s : s[i] = x})

(***************************************************************************)
(* Which subsystem a specification runs; the others keep their idle state. *)
(***************************************************************************)
HeapIdle ==
    /\ objects = {}
    /\ reference_count = [a \in Addr |-> 0]
    /\ is_reference_counted = [a \in Addr |-> FALSE]
    /\ captured = [a \in Addr |-> <<>>]
    /\ held = [a \in Addr |-> 0]
    /\ heapLast = [op |-> "none", object |-> 0]

ParseIdle ==
    /\ parseInput = <<>>
    /\ parseIndentation = 0
    /\ parseResult = [done |-> FALSE]

OptIdle ==
    /\ optOriginal = <<>>
    /\ optBody = <<>>
    /\ optIndex = 0
    /\ optVisible = <<>>
    /\ optPhase = "idle"

CycleIdle ==
    /\ cycUses = <<>>
    /\ cycExisting = {}
    /\ cycStack = <<>>
    /\ cycMemo = <<>>
    /\ cycRecovered = {}
    /\ cycRequests = 0
    /\ cycLir = [kind |-> "Idle"]

LirIdle ==
    /\ lirFunction = <<>>
    /\ lirContext = <<>>
    /\ lirBefore = <<>>
    /\ lirIndex = 0
    /\ lirPhase = "idle"

HandlesIdle ==
    /\ hpHeaps = <<>>
    /\ hpData = <<>>
    /\ hpStack = <<>>
    /\ hpMapping = [by_value |-> FALSE, pairs |-> {}]
    /\ hpPanicked = FALSE
    /\ hpLast = [op |-> "idle"]

HirIdle ==
    /\ hirAsts = <<>>
    /\ hirContext = <<>>
    /\ hirPhase = "idle"

TraceIdle ==
    /\ trKind = "idle"
    /\ trHeap = <<>>
    /\ evaluated_values = {}
    /\ root_locals = <<>>
    /\ call_stack = <<>>
    /\ trEvents = 0
    /\ trPhase = "idle"

CallsIdle ==
    /\ clFrames = <<>>
    /\ clPending = <<>>
    /\ clStatus = <<>>
    /\ clEvents = <<>>
    /\ clStack = <<>>
    /\ clUnwrapFailed = FALSE

ChannelIdle ==
    /\ channel = <<>>
    /\ completed_operations = {}
    /\ chSent = <<>>
    /\ chReceived = <<>>
    /\ chNextOperation = 0
    /\ current_receive = 0
    /\ chPrinted = <<>>

FibersIdle ==
    /\ fbStatus = <<>>
    /\ fbParent = <<>>
    /\ fbSpawnedBy = <<>>
    /\ fbInstructions = <<>>

SymbolsIdle ==
    /\ sySymbols = <<>>
    /\ syHeap = 0
    /\ syGet = [text |-> "", found |-> FALSE]

WhitespaceIdle ==
    /\ wsInput = <<>>
    /\ wsIndentation = 0
    /\ wsAlsoComments = FALSE
    /\ wsResult = [done |-> FALSE]

HintsIdle ==
    /\ incoming_events = [queue |-> <<>>, closed |-> FALSE, senders |-> TRUE]
    /\ hints_finders = {}
    /\ outgoing_diagnostics = <<>>
    /\ outgoing_hints = <<>>
    /\ hsPosition = "sleep"
    /\ hsClient = <<>>
    /\ hsLast = [op |-> "none"]
    /\ hsSent = 0

CliIdle ==
    /\ cliVm = [channels |-> <<>>, completed |-> {}, next |-> 0]
    /\ cliFiber = [status |-> "done"]
    /\ cliStdout = 0
    /\ cliStdin = 0
    /\ cliPosition = "ended"
    /\ cliPrinted = 0

IdleExcept(g) ==
    /\ IF g = "heap" THEN TRUE ELSE HeapIdle
    /\ IF g = "parse" THEN TRUE ELSE ParseIdle
    /\ IF g = "opt" THEN TRUE ELSE OptIdle
    /\ IF g = "cycle" THEN TRUE ELSE CycleIdle
    /\ IF g = "lir" THEN TRUE ELSE LirIdle
    /\ IF g = "handles" THEN TRUE ELSE HandlesIdle
    /\ IF g = "hir" THEN TRUE ELSE HirIdle
    /\ IF g = "trace" THEN TRUE ELSE TraceIdle
    /\ IF g = "calls" THEN TRUE ELSE CallsIdle
    /\ IF g = "channel" THEN TRUE ELSE ChannelIdle
    /\ IF g = "fibers" THEN TRUE ELSE FibersIdle
    /\ IF g = "symbols" THEN TRUE ELSE SymbolsIdle
    /\ IF g = "whitespace" THEN TRUE ELSE WhitespaceIdle
    /\ IF g = "hints" THEN TRUE ELSE HintsIdle
    /\ IF g = "cli" THEN TRUE ELSE CliIdle

FrameExcept(g) ==
    /\ IF g = "heap" THEN TRUE ELSE UNCHANGED heapVars
    /\ IF g = "parse" THEN TRUE ELSE UNCHANGED parseVars
    /\ IF g = "opt" THEN TRUE ELSE UNCHANGED optVars
    /\ IF g = "cycle" THEN TRUE ELSE UNCHANGED cycleVars
    /\ IF g = "lir" THEN TRUE ELSE UNCHANGED lirVars
    /\ IF g = "handles" THEN TRUE ELSE UNCHANGED handleVars
    /\ IF g = "hir" THEN TRUE ELSE UNCHANGED hirVars
    /\ IF g = "trace" THEN TRUE ELSE UNCHANGED traceVars
    /\ IF g = "calls" THEN TRUE ELSE UNCHANGED callVars
    /\ IF g = "channel" THEN TRUE ELSE UNCHANGED channelVars
    /\ IF g = "fibers" THEN TRUE ELSE UNCHANGED fiberVars
    /\ IF g = "symbols" THEN TRUE ELSE UNCHANGED symbolVars
    /\ IF g = "whitespace" THEN TRUE ELSE UNCHANGED whitespaceVars
    /\ IF g = "hints" THEN TRUE ELSE UNCHANGED hintsVars
    /\ IF g = "cli" THEN TRUE ELSE UNCHANGED cliVars

(***************************************************************************)
(* The heap.  A heap state h is [objects, reference_count]; the flag and   *)
(* the captured objects of an address are fixed while it is allocated.     *)
(***************************************************************************)
HeapState == [objects |-> objects, reference_count |-> reference_count]

\* Heap::allocate_raw: the count becomes 1 when the flag is set, and the
\* object is inserted into the object set.
allocate_raw(h, a, flag) ==
    [objects |-> h.objects \cup {a},
     reference_count |-> IF flag THEN [h.reference_count EXCEPT ![a] = 1]
                         ELSE h.reference_count]

\* Heap::deallocate: removes the object from the object set and frees it.
deallocate(h, o) == [h EXCEPT !.objects = @ \ {o}]

\* A dup that counts for every object, whatever its flag.
dup_counts_all(h, o) == [h EXCEPT !.reference_count[o] = @ + 1]

\* HeapObject::dup: one more reference; nothing for an object without the flag.
dup(h, o) ==
    IF is_reference_counted[o]
    THEN [h EXCEPT !.reference_count[o] = @ + 1]
    ELSE h

RECURSIVE drop(_, _), drop_children(_, _, _)

\* A drop_children that forgets the captured objects.
drop_children_forgets(h, caps, i) == h

\* HeapClosure::drop_children: every captured object is dropped, in order.
drop_children(h, caps, i) ==
    IF i > Len(caps) THEN h
    ELSE drop_children(drop(h, caps[i]), caps, i + 1)

\* HeapObject::drop: one reference less; at zero the children are dropped
\* and the object is deallocated.
drop(h, o) ==
    IF ~is_reference_counted[o] THEN h
    ELSE LET n == h.reference_count[o] - 1
             h1 == [h EXCEPT !.reference_count[o] = n]
         IN  IF n = 0 THEN deallocate(drop_children(h1, captured[o], 1), o)
             ELSE h1

HeapInit ==
    /\ objects = {}
    /\ reference_count = [a \in Addr |-> 0]
    /\ is_reference_counted = [a \in Addr |-> FALSE]
    /\ captured = [a \in Addr |-> <<>>]
    /\ held = [a \in Addr |-> 0]
    /\ heapLast = [op |-> "none", object |-> 0]

\* The address the allocator returns: one that no live object has (the
\* lowest, addresses being interchangeable).
FreshAddress == CHOOSE a \in Addr \ objects : \A b \in Addr \ objects : a <= b

\* Text::create(heap, is_reference_counted, value).
TextCreate ==
    \E flag \in BOOLEAN :
        /\ objects # Addr
        /\ LET a == FreshAddress
               h == allocate_raw(HeapState, a, flag)
           IN
           /\ objects' = h.objects
           /\ reference_count' = h.reference_count
           /\ is_reference_counted' = [is_reference_counted EXCEPT ![a] = flag]
           /\ captured' = [captured EXCEPT ![a] = <<>>]
           /\ held' = [held EXCEPT ![a] = IF flag THEN 1 ELSE 0]
           /\ heapLast' = [op |-> "allocate", object |-> a]

\* The objects the VM can hand to an operation: it holds a reference to
\* them, or they are constants (no flag) that live in the heap.
Reachable(o) == o \in objects /\ (held[o] > 0 \/ ~is_reference_counted[o])

\* HeapClosure::create(heap, captured, ...): the closure takes over one of
\* the VM's references for every captured object.
ClosureCreate ==
    \E caps \in SeqUpTo(objects, MaxCaptured) :
        /\ objects # Addr
        /\ \A i \in DOMAIN caps : Reachable(caps[i])
        /\ \A o \in objects :
              is_reference_counted[o] => CountIn(caps, o) <= held[o]
        /\ LET a == FreshAddress
               h == allocate_raw(HeapState, a, TRUE)
           IN
           /\ objects' = h.objects
           /\ reference_count' = h.reference_count
           /\ is_reference_counted' = [is_reference_counted EXCEPT ![a] = TRUE]
           /\ captured' = [captured EXCEPT ![a] = caps]
           /\ held' = [o \in Addr |->
                         IF o = a THEN 1
                         ELSE IF is_reference_counted[o] THEN held[o] - CountIn(caps, o)
                         ELSE held[o]]
           /\ heapLast' = [op |-> "allocate", object |-> a]

\* object.dup(heap) by the VM.
Dup ==
    \E o \in objects :
        /\ Reachable(o)
        /\ reference_count[o] < MaxCount
        /\ LET h == dup(HeapState, o) IN
           /\ objects' = h.objects
           /\ reference_count' = h.reference_count
           /\ held' = [held EXCEPT ![o] = IF is_reference_counted[o] THEN @ + 1 ELSE @]
           /\ heapLast' = [op |-> "dup", object |-> o]
        /\ UNCHANGED <<is_reference_counted, captured>>

\* object.drop(heap) by the VM.
Drop ==
    \E o \in objects :
        /\ Reachable(o)
        /\ LET h == drop(HeapState, o) IN
           /\ objects' = h.objects
           /\ reference_count' = h.reference_count
           /\ held' = [held EXCEPT ![o] = IF is_reference_counted[o] THEN @ - 1 ELSE @]
           /\ heapLast' = [op |-> "drop", object |-> o]
        /\ UNCHANGED <<is_reference_counted, captured>>

\* Heap::clear (also run when the heap is dropped): every object of the
\* object set is deallocated, whatever its flag.
Clear ==
    /\ objects # {}
    /\ objects' = {}
    /\ reference_count' = [a \in Addr |-> 0]
    /\ is_reference_counted' = [a \in Addr |-> FALSE]
    /\ captured' = [a \in Addr |-> <<>>]
    /\ held' = [a \in Addr |-> 0]
    /\ heapLast' = [op |-> "clear", object |-> 0]

Init == HeapInit /\ IdleExcept("heap")
Next ==
    \/ TextCreate /\ FrameExcept("heap")
    \/ ClosureCreate /\ FrameExcept("heap")
    \/ Dup /\ FrameExcept("heap")
    \/ Drop /\ FrameExcept("heap")
    \/ Clear /\ FrameExcept("heap")
Spec == Init /\ [][Next]_vars

(***************************************************************************)
(* C1.  Reference counting of heap objects.                                *)
(***************************************************************************)
\* How often the objects in live capture o.
CapturedBy(o, live) ==
    Cardinality({pi \in live \X (1..MaxCaptured + 1) :
                    pi[2] \in DOMAIN captured[pi[1]] /\ captured[pi[1]][pi[2]] = o})

\* The count of a live reference-counted object is the number of references
\* to it, and no live closure captures a freed object.
CountsAreReferences ==
    /\ \A o \in objects : is_reference_counted[o] =>
          /\ reference_count[o] >= 1
          /\ reference_count[o] = held[o] + CapturedBy(o, objects)
    /\ \A p \in objects : \A i \in DOMAIN captured[p] : captured[p][i] \in objects

\* What one heap operation does to the counts and to the object set.
CountingStep ==
    LET o == heapLast'.object
        freed == objects \ objects'
    IN  /\ heapLast'.op = "allocate" =>
              /\ o \notin objects
              /\ objects' = objects \cup {o}
              /\ is_reference_counted'[o] => reference_count'[o] = 1
              /\ \A x \in objects : reference_count'[x] = reference_count[x]
        /\ (heapLast'.op = "dup" /\ is_reference_counted[o]) =>
              /\ objects' = objects
              /\ reference_count' = [reference_count EXCEPT ![o] = @ + 1]
        /\ (heapLast'.op = "drop" /\ is_reference_counted[o]) =>
              /\ objects' \subseteq objects
              /\ (o \notin objects') <=> (reference_count[o] = 1)
              /\ o \in objects' => /\ objects' = objects
                                   /\ reference_count'[o] = reference_count[o] - 1
              /\ \A x \in objects \ {o} : is_reference_counted[x] =>
                    IF x \in objects'
                    THEN reference_count'[x] = reference_count[x] - CapturedBy(x, freed)
                    ELSE reference_count[x] = CapturedBy(x, freed)
              /\ \A x \in objects : ~is_reference_counted[x] => x \in objects'

\* C1: for every reference-counted object, allocation sets the count to 1
\* and registers the object; a dup adds one and a drop subtracts one; the
\* object leaves the object set exactly when a drop brings its count to
\* zero, and then every captured child is dropped once per capture (its
\* count falls by that number, and it is freed in turn when that is zero).
\* Hence the count of a live object is always the number of references to it.
C1_ReferenceCounting == [][CountingStep]_vars /\ []CountsAreReferences

\* A drop freed a closure whose captured, reference-counted child lives on.
C1_Witness ==
    /\ heapLast.op = "drop"
    /\ is_reference_counted[heapLast.object]
    /\ heapLast.object \notin objects
    /\ \E i \in DOMAIN captured[heapLast.object] :
          /\ is_reference_counted[captured[heapLast.object][i]]
          /\ captured[heapLast.object][i] \in objects

(***************************************************************************)
(* C11.  Objects without the reference-counted flag.                       *)
(***************************************************************************)
\* What one heap operation does to the live objects without the flag.
ConstantStep ==
    \A o \in objects : ~is_reference_counted[o] =>
        /\ reference_count'[o] = reference_count[o]
        /\ heapLast'.op \in {"allocate", "dup", "drop"} =>
              o \in objects' /\ ~is_reference_counted'[o]
        /\ o \notin objects' => heapLast'.op = "clear"

\* C11: an object allocated with the reference-counted flag cleared has no
\* count that a dup or a drop changes, and no drop (of it or of an object
\* that captures it) deallocates it: it leaves the object set only when the
\* heap is cleared.
C11_ConstantsLive == [][ConstantStep]_vars

\* A closure that captured an object without the flag was freed by a drop,
\* and the captured object is still in the object set.
C11_Witness ==
    /\ heapLast.op = "drop"
    /\ heapLast.object \notin objects
    /\ \E i \in DOMAIN captured[heapLast.object] :
          /\ ~is_reference_counted[captured[heapLast.object][i]]
          /\ captured[heapLast.object][i] \in objects
          /\ reference_count[captured[heapLast.object][i]] = 0

(***************************************************************************)
(* The parser.  An input is a sequence of one-character strings; a parser  *)
(* returns [ok, rest, node], with rest = input when ok is FALSE.           *)
(***************************************************************************)
Chars == {"[", "]", ":", ",", "a", " ", "\n"}

DropFirst(s, n) == SubSeq(s, n + 1, Len(s))
StartsWith(s, c) == Len(s) > 0 /\ s[1] = c

\* The length of the longest prefix of s that consists of c.
RECURSIVE RunLength(_, _)
RunLength(s, c) ==
    IF StartsWith(s, c) THEN 1 + RunLength(Tail(s), c) ELSE 0

NoNode == [kind |-> "None"]
Missing(input) == [ok |-> FALSE, rest |-> input, node |-> NoNode]
Parsed(rest, node) == [ok |-> TRUE, rest |-> rest, node |-> node]

ErrorNode(unparsable_input, error) ==
    [kind |-> "Error", unparsable_input |-> unparsable_input, error |-> error]

\* literal.rs: one punctuation character.
literal(input, c, kind) ==
    IF StartsWith(input, c) THEN Parsed(Tail(input), [kind |-> kind])
    ELSE Missing(input)

opening_bracket(input) == literal(input, "[", "OpeningBracket")
closing_bracket(input) == literal(input, "]", "ClosingBracket")
colon(input) == literal(input, ":", "Colon")
comma(input) == literal(input, ",", "Comma")
colon_equals_sign(input) ==
    IF Len(input) >= 2 /\ input[1] = ":" /\ input[2] = "="
    THEN Parsed(DropFirst(input, 2), [kind |-> "ColonEqualsSign"])
    ELSE Missing(input)

\* single_line_whitespace: the run of spaces the input starts with.
single_line_whitespace(input) ==
    LET n == RunLength(input, " ") IN
    [rest |-> DropFirst(input, n),
     node |-> [kind |-> "Whitespace", text |-> SubSeq(input, 1, n)]]

\* An indentation that is always there: nothing is consumed.
no_indentation_needed(input, indentation) ==
    Parsed(input, [kind |-> "Whitespace", text |-> <<>>])

\* leading_indentation: exactly two spaces per level, or nothing at all.
leading_indentation(input, indentation) ==
    IF /\ Len(input) >= 2 * indentation
       /\ \A i \in 1..(2 * indentation) : input[i] = " "
    THEN Parsed(DropFirst(input, 2 * indentation),
                [kind |-> "Whitespace", text |-> SubSeq(input, 1, 2 * indentation)])
    ELSE Missing(input)

\* comment: from the number sign up to the end of the line.
RECURSIVE LineLength(_)
LineLength(s) ==
    IF s = <<>> \/ StartsWith(s, "\n") THEN 0 ELSE 1 + LineLength(Tail(s))

comment(input) ==
    IF StartsWith(input, "#")
    THEN LET n == LineLength(Tail(input)) IN
         Parsed(DropFirst(input, n + 1),
                [kind |-> "Comment", text |-> SubSeq(input, 2, n + 1)])
    ELSE Missing(input)

\* The loop of whitespaces_and_newlines: a comment first, then newlines,
\* which are consumed only if the indentation follows them.  What the
\* comment parser returned is bound as a value, so it is computed once.
RECURSIVE whitespace_lines(_, _, _, _)
whitespace_lines(input, indentation, also_comments, parts) ==
    LET after(c) ==
            LET commented == c.rest
                with_comment == IF c.ok THEN Append(parts, c.node) ELSE parts
                n == RunLength(commented, "\n")
                new_input == DropFirst(commented, n)
                new_parts == [i \in 1..n |-> [kind |-> "Newline"]]
                li == leading_indentation(new_input, indentation)
            IN  IF n = 0 THEN [rest |-> commented, parts |-> with_comment]
                ELSE IF li.ok
                     THEN whitespace_lines(li.rest, indentation, also_comments,
                                           with_comment \o new_parts \o <<li.node>>)
                     ELSE [rest |-> commented, parts |-> with_comment]
    IN  CHOOSE result \in
            {after(c) : c \in {IF also_comments THEN comment(input)
                                                ELSE Missing(input)}} : TRUE

whitespaces_and_newlines(input, indentation, also_comments) ==
    LET first == single_line_whitespace(input)
        all == whitespace_lines(first.rest, indentation, also_comments,
                                <<first.node>>)
    IN  [rest |-> all.rest,
         whitespace |-> SelectSeq(all.parts,
             LAMBDA it : ~(it.kind = "Whitespace" /\ it.text = <<>>))]

\* IsMultiline for a list of whitespace nodes.
is_multiline(whitespace) ==
    \E i \in DOMAIN whitespace : whitespace[i].kind = "Newline"

\* wrap_in_whitespace: the node itself when there is no whitespace.
wrap_in_whitespace(node, whitespace) ==
    IF whitespace = <<>> THEN node
    ELSE [kind |-> "TrailingWhitespace", child |-> node, whitespace |-> whitespace]

\* The field a loop iteration of struct_ builds.  With the shorthand, only
\* the key (wrapped in its whitespace) and the comma go into the field.
struct_field(is_using_shorthand, key_or_value, colon_node, value, comma_option) ==
    IF is_using_shorthand
    THEN [kind |-> "StructField", key_and_colon |-> <<>>,
          value |-> key_or_value, comma |-> comma_option]
    ELSE [kind |-> "StructField", key_and_colon |-> <<<<key_or_value, colon_node>>>>,
          value |-> value, comma |-> comma_option]

\* s with its last element wrapped in the whitespace.
WrapLast(s, whitespace) ==
    [s EXCEPT ![Len(s)] = wrap_in_whitespace(@, whitespace)]

\* fields_indentation after a piece of whitespace: one level below the
\* struct once the fields are spread over several lines.
indent_fields(l, whitespace, indentation) ==
    IF is_multiline(whitespace) THEN indentation + 1 ELSE l.fields_indentation

\* The local variables of struct_ once the opening bracket is parsed.
struct_locals(opening, indentation) ==
    [outer_input |-> opening.rest, input |-> opening.rest,
     opening_bracket |-> opening.node, fields |-> <<>>,
     fields_indentation |-> indentation,
     key_or_value |-> NoNode, has_key |-> FALSE, key_or_value_whitespace |-> <<>>,
     colon |-> NoNode, has_colon |-> FALSE,
     value |-> NoNode, has_value |-> FALSE, comma |-> <<>>]

RECURSIVE struct_(_, _), struct_loop(_, _), expression(_, _)

\* expression: an identifier or a struct (the other expressions do not
\* occur in the inputs of the model).
expression(input, indentation) ==
    IF StartsWith(input, "a")
    THEN Parsed(DropFirst(input, RunLength(input, "a")),
                [kind |-> "Identifier", text |-> SubSeq(input, 1, RunLength(input, "a"))])
    ELSE struct_(input, indentation)

\* Whitespace before key: it goes to the opening bracket or to the last field.
before_key(l, indentation) ==
    LET whitespace == whitespaces_and_newlines(l.outer_input, indentation + 1, TRUE) IN
    [l EXCEPT !.input = whitespace.rest,
              !.outer_input = whitespace.rest,
              !.fields_indentation = indent_fields(l, whitespace.whitespace, indentation),
              !.opening_bracket = IF l.fields = <<>>
                                  THEN wrap_in_whitespace(@, whitespace.whitespace)
                                  ELSE @,
              !.fields = IF l.fields = <<>> THEN @
                         ELSE WrapLast(@, whitespace.whitespace)]

\* The key if it's explicit or the value when using a shorthand.
with_key(l) ==
    LET key == expression(l.input, l.fields_indentation) IN
    [l EXCEPT !.input = key.rest, !.has_key = key.ok, !.key_or_value = key.node]

\* Whitespace between key/value and colon.
after_key(l, indentation) ==
    LET whitespace == whitespaces_and_newlines(l.input, l.fields_indentation + 1, TRUE) IN
    [l EXCEPT !.input = whitespace.rest,
              !.key_or_value_whitespace = whitespace.whitespace,
              !.fields_indentation = indent_fields(l, whitespace.whitespace, indentation)]

\* Colon (a colon that starts ":=" is none).
with_colon(l) ==
    IF colon(l.input).ok /\ ~colon_equals_sign(l.input).ok
    THEN [l EXCEPT !.input = colon(l.input).rest,
                   !.colon = colon(l.input).node,
                   !.has_colon = TRUE]
    ELSE [l EXCEPT !.colon = ErrorNode(<<>>, "StructFieldMissesColon"),
                   !.has_colon = FALSE]

\* Whitespace between colon and value: it is wrapped around the colon.
after_colon(l, indentation) ==
    LET whitespace == whitespaces_and_newlines(l.input, l.fields_indentation + 1, TRUE) IN
    [l EXCEPT !.input = whitespace.rest,
              !.colon = wrap_in_whitespace(@, whitespace.whitespace),
              !.fields_indentation = indent_fields(l, whitespace.whitespace, indentation)]

\* Value.
with_value(l) ==
    LET value == expression(l.input, l.fields_indentation + 1) IN
    IF value.ok
    THEN [l EXCEPT !.input = value.rest, !.value = value.node, !.has_value = TRUE]
    ELSE [l EXCEPT !.value = ErrorNode(<<>>, "StructFieldMissesValue"),
                   !.has_value = FALSE]

\* Whitespace between value and comma: it is wrapped around the value.
after_value(l, indentation) ==
    LET whitespace == whitespaces_and_newlines(l.input, l.fields_indentation + 1, TRUE) IN
    [l EXCEPT !.input = whitespace.rest,
              !.value = wrap_in_whitespace(@, whitespace.whitespace),
              !.fields_indentation = indent_fields(l, whitespace.whitespace, indentation)]

\* Comma.
with_comma(l) ==
    IF comma(l.input).ok
    THEN [l EXCEPT !.input = comma(l.input).rest, !.comma = <<comma(l.input).node>>]
    ELSE [l EXCEPT !.comma = <<>>]

\* The end of an iteration that found something: the field is pushed.
push_field(l) ==
    LET is_using_shorthand == l.has_key /\ ~l.has_colon /\ ~l.has_value
        key_or_value ==
            wrap_in_whitespace(
                IF l.has_key THEN l.key_or_value
                ELSE ErrorNode(<<>>, IF is_using_shorthand THEN "StructFieldMissesValue"
                                     ELSE "StructFieldMissesKey"),
                l.key_or_value_whitespace)
    IN  [l EXCEPT !.outer_input = l.input,
                  !.fields = Append(@, struct_field(is_using_shorthand, key_or_value,
                                                    l.colon, l.value, l.comma))]

\* TRUE; the locals l are computed by the time this has been evaluated.
Computed(l) == l.input = l.input

\* One iteration of the loop of struct_, up to the comma: the statements
\* run one after the other.
struct_iteration(l, indentation) ==
    LET l1 == before_key(l, indentation)
        l2 == with_key(l1)
        l3 == after_key(l2, indentation)
        l4 == with_colon(l3)
        l5 == after_colon(l4, indentation)
        l6 == with_value(l5)
        l7 == after_value(l6, indentation)
        l8 == with_comma(l7)
    IN  IF /\ Computed(l1) /\ Computed(l2) /\ Computed(l3) /\ Computed(l4)
           /\ Computed(l5) /\ Computed(l6) /\ Computed(l7)
        THEN l8
        ELSE l

\* The loop ends when an iteration found no key, no value and no comma.
struct_continue(l, indentation) ==
    IF ~l.has_key /\ ~l.has_value /\ l.comma = <<>> THEN l
    ELSE struct_loop(push_field(l), indentation)

\* The loop of struct_: the local variables at the break.
struct_loop(l, indentation) ==
    struct_continue(struct_iteration(l, indentation), indentation)

\* The end of struct_, after the loop: the whitespace before the closing
\* bracket belongs to the struct only if the bracket is there.
struct_closing(l, indentation) ==
    LET whitespace == whitespaces_and_newlines(l.outer_input, indentation, TRUE)
        closing == closing_bracket(whitespace.rest)
    IN  IF closing.ok
        THEN Parsed(closing.rest,
               [kind |-> "Struct",
                opening_bracket |->
                    IF l.fields = <<>>
                    THEN wrap_in_whitespace(l.opening_bracket, whitespace.whitespace)
                    ELSE l.opening_bracket,
                fields |-> IF l.fields = <<>> THEN l.fields
                           ELSE WrapLast(l.fields, whitespace.whitespace),
                closing_bracket |-> closing.node])
        ELSE Parsed(l.outer_input,
               [kind |-> "Struct",
                opening_bracket |-> l.opening_bracket,
                fields |-> l.fields,
                closing_bracket |-> ErrorNode(<<>>, "StructNotClosed")])

\* struct_(input, indentation, allow_function).
struct_(input, indentation) ==
    IF ~StartsWith(input, "[") THEN Missing(input)
    ELSE struct_closing(
             struct_loop(struct_locals(opening_bracket(input), indentation), indentation),
             indentation)

\* The concatenation of the sequences in ss.
RECURSIVE Flatten(_)
Flatten(ss) == IF ss = <<>> THEN <<>> ELSE Head(ss) \o Flatten(Tail(ss))

\* Display for CstKind: the text of a node.
RECURSIVE Display(_)
Display(node) ==
    CASE node.kind = "Comma" -> <<",">>
      [] node.kind = "Colon" -> <<":">>
      [] node.kind = "ColonEqualsSign" -> <<":", "=">>
      [] node.kind = "OpeningBracket" -> <<"[">>
      [] node.kind = "ClosingBracket" -> <<"]">>
      [] node.kind = "Whitespace" -> node.text
      [] node.kind = "Newline" -> <<"\n">>
      [] node.kind = "TrailingWhitespace" ->
            Display(node.child)
            \o Flatten([i \in DOMAIN node.whitespace |-> Display(node.whitespace[i])])
      [] node.kind = "Identifier" -> node.text
      [] node.kind = "Struct" ->
            Display(node.opening_bracket)
            \o Flatten([i \in DOMAIN node.fields |-> Display(node.fields[i])])
            \o Display(node.closing_bracket)
      [] node.kind = "StructField" ->
            (IF node.key_and_colon = <<>> THEN <<>>
             ELSE Display(node.key_and_colon[1][1]) \o Display(node.key_and_colon[1][2]))
            \o Display(node.value)
            \o (IF node.comma = <<>> THEN <<>> ELSE Display(node.comma[1]))
      [] node.kind = "Error" -> node.unparsable_input

Indentations == {0, 1}

\* The inputs: up to MaxLen characters, after an opening bracket or not,
\* with at most MaxNesting opening brackets.
MaxNesting == 3
ParseInputs ==
    {input \in SeqUpTo(Chars, MaxLen)
                \cup {<<"[">> \o rest : rest \in SeqUpTo(Chars, MaxLen)} :
        Cardinality({i \in DOMAIN input : input[i] = "["}) <= MaxNesting}

ParseInit ==
    /\ parseInput \in ParseInputs
    /\ parseIndentation \in Indentations
    /\ parseResult = [done |-> FALSE]

\* struct_ is applied to the input.
Parse ==
    /\ ~parseResult.done
    /\ LET r == struct_(parseInput, parseIndentation) IN
       parseResult' = [done |-> TRUE, ok |-> r.ok, rest |-> r.rest, node |-> r.node]
    /\ UNCHANGED <<parseInput, parseIndentation>>

InitParse == ParseInit /\ IdleExcept("parse")
NextParse ==
    \/ Parse /\ FrameExcept("parse")
SpecParse == InitParse /\ [][NextParse]_vars

(***************************************************************************)
(* C2.  Parse round trip.                                                  *)
(***************************************************************************)
\* C2: writing the parsed tree back out reproduces exactly the input that
\* was consumed: the text of the tree followed by the remaining input is
\* the input, and without a tree nothing was consumed.
C2_RoundTrip ==
    parseResult.done =>
        IF parseResult.ok
        THEN Display(parseResult.node) \o parseResult.rest = parseInput
        ELSE parseResult.rest = parseInput

\* The node inside the whitespace that is wrapped around it.
RECURSIVE Unwrapped(_)
Unwrapped(node) ==
    IF node.kind = "TrailingWhitespace" THEN Unwrapped(node.child) ELSE node

\* A struct was parsed that has a shorthand field, and its text followed by
\* the remaining input is not the input.
C2_Witness ==
    /\ parseResult.done
    /\ parseResult.ok
    /\ \E i \in DOMAIN parseResult.node.fields :
          Unwrapped(parseResult.node.fields[i]).key_and_colon = <<>>
    /\ Display(parseResult.node) \o parseResult.rest # parseInput

(***************************************************************************)
(* The MIR optimizer.  A body is a sequence of [id, expression]; IDs are   *)
(* numbers.  The variables hold the run of Mir::optimize on one module.    *)
(***************************************************************************)
Tag(symbol) == [kind |-> "Tag", symbol |-> symbol, value |-> <<>>]
Text(text) == [kind |-> "Text", text |-> text]
IntExpression(int) == [kind |-> "Int", int |-> int]
HirId(hir) == [kind |-> "HirId", hir |-> hir]
Reference(id) == [kind |-> "Reference", id |-> id]
Function(original_hirs, parameters, responsible_parameter, body) ==
    [kind |-> "Function", original_hirs |-> original_hirs, parameters |-> parameters,
     responsible_parameter |-> responsible_parameter, body |-> body]
Call(function, arguments, responsible) ==
    [kind |-> "Call", function |-> function, arguments |-> arguments,
     responsible |-> responsible]
Panic(reason, responsible) ==
    [kind |-> "Panic", reason |-> reason, responsible |-> responsible]
Parameter == [kind |-> "Parameter"]
TagWith(symbol, value) == [kind |-> "Tag", symbol |-> symbol, value |-> <<value>>]
List(items) == [kind |-> "List", items |-> items]
Struct(fields) == [kind |-> "Struct", fields |-> fields]
TraceCallStarts(hir_call, function, arguments, responsible) ==
    [kind |-> "TraceCallStarts", hir_call |-> hir_call, function |-> function,
     arguments |-> arguments, responsible |-> responsible]
TraceCallEnds(return_value) == [kind |-> "TraceCallEnds", return_value |-> return_value]
TraceExpressionEvaluated(hir_expression, value) ==
    [kind |-> "TraceExpressionEvaluated", hir_expression |-> hir_expression,
     value |-> value]
TraceFoundFuzzableFunction(hir_definition, function) ==
    [kind |-> "TraceFoundFuzzableFunction", hir_definition |-> hir_definition,
     function |-> function]

\* Expression::nothing().
nothing == Tag("Nothing")

Entry(id, expr) == [id |-> id, expression |-> expr]

Range(s) == {s[i] : i \in DOMAIN s}
RemoveAt(s, i) == SubSeq(s, 1, i - 1) \o SubSeq(s, i + 1, Len(s))

\* The IDs an expression refers to, those inside a function body included.
RECURSIVE referenced_ids(_)
referenced_ids(expr) ==
    CASE expr.kind = "Reference" -> {expr.id}
      [] expr.kind = "Call" ->
            {expr.function, expr.responsible} \cup Range(expr.arguments)
      [] expr.kind = "Panic" -> {expr.reason, expr.responsible}
      [] expr.kind = "Function" ->
            UNION {referenced_ids(expr.body[i].expression) :
                      i \in DOMAIN expr.body}
      [] expr.kind = "Tag" -> Range(expr.value)
      [] expr.kind = "List" -> Range(expr.items)
      [] expr.kind = "Struct" ->
            UNION {{expr.fields[i][1], expr.fields[i][2]} : i \in DOMAIN expr.fields}
      [] expr.kind = "TraceCallStarts" ->
            {expr.hir_call, expr.function, expr.responsible} \cup Range(expr.arguments)
      [] expr.kind = "TraceCallEnds" -> {expr.return_value}
      [] expr.kind = "TraceExpressionEvaluated" -> {expr.hir_expression, expr.value}
      [] expr.kind = "TraceFoundFuzzableFunction" -> {expr.hir_definition, expr.function}
      [] OTHER -> {}

\* Calls and panics have effects; everything else only has a value.
is_pure(expr) == expr.kind \notin {"Call", "Panic"}

\* VisibleExpressions: insert and remove.
insert(visible, id, expr) ==
    [x \in DOMAIN visible \cup {id} |-> IF x = id THEN expr ELSE visible[x]]

\* A removal that removes nothing.
remove_none(visible, ids) == visible

remove_all(visible, ids) ==
    [x \in DOMAIN visible \ ids |-> visible[x]]

\* Reference following: a reference to a visible pure expression becomes
\* that expression (a parameter has none, and a function is not copied).
follow_references(visible, expr) ==
    IF /\ expr.kind = "Reference"
       /\ expr.id \in DOMAIN visible
       /\ is_pure(visible[expr.id])
       /\ visible[expr.id].kind \notin {"Parameter", "Function"}
    THEN visible[expr.id]
    ELSE expr

\* Hash for Expression: the discriminant and then the fields that the
\* implementation feeds to the hasher.  A struct contributes the number of
\* its fields only, a parameter nothing, and the original HIR IDs of a
\* function are combined regardless of their order.  (The hasher itself is
\* taken to be free of collisions: two hashes are equal exactly when what
\* was fed to the hasher is equal.)
RECURSIVE do_hash(_)
do_hash(expr) ==
    CASE expr.kind = "Struct" -> [kind |-> "Struct", len |-> Len(expr.fields)]
      [] expr.kind = "Function" ->
            [kind |-> "Function",
             original_hirs |-> expr.original_hirs,
             parameters |-> expr.parameters,
             responsible_parameter |-> expr.responsible_parameter,
             body |-> [i \in DOMAIN expr.body |->
                          <<expr.body[i].id, do_hash(expr.body[i].expression)>>]]
      [] OTHER -> expr

\* A loop that is left before its first round.
leave_before_first_round(visible, expr) == expr

\* The inner loop of optimize_expression: the passes change the expression
\* in place, round after round, until a round leaves the hash as it was.
\* (No expression of the model is a call of a builtin, a use, or a call that
\* is inlined, and no function body holds a constant to lift.)
RECURSIVE optimize_until_unchanged(_, _)
optimize_until_unchanged(visible, expr) ==
    LET after == follow_references(visible, expr)
    IN  IF do_hash(after) = do_hash(expr)
        THEN after
        ELSE optimize_until_unchanged(visible, after)

\* The number of arguments of a call of needs.
NeedsArguments == 4

\* The end of optimize_expression: a call of the needs function whose first
\* argument is visibly True becomes Nothing.
needs_true_to_nothing(visible, expr) ==
    IF /\ expr.kind = "Call"
       /\ visible[expr.function].kind = "Function"
       /\ "needs" \in visible[expr.function].original_hirs
       /\ Len(expr.arguments) = NeedsArguments
       /\ visible[expr.arguments[1]].kind = "Tag"
       /\ visible[expr.arguments[1]].value = <<>>
       /\ visible[expr.arguments[1]].symbol = "True"
    THEN nothing
    ELSE expr

\* Common-subtree elimination: a pure expression that an earlier entry of
\* the body equals becomes a reference to the first such entry.
eliminate_common_subtrees(body) ==
    [i \in DOMAIN body |->
        IF /\ is_pure(body[i].expression)
           /\ body[i].expression.kind # "Function"
           /\ \E j \in 1..(i - 1) : body[j].expression = body[i].expression
        THEN Entry(body[i].id,
                   Reference(body[CHOOSE j \in 1..(i - 1) :
                                     /\ body[j].expression = body[i].expression
                                     /\ \A k \in 1..(j - 1) :
                                           body[k].expression # body[i].expression].id))
        ELSE body[i]]

\* A tree shaking that keeps the expression only.
kept_without_references(keep, id, expr) == keep \cup {id}

\* Tree shaking keeps an expression together with the IDs it refers to.
kept(keep, id, expr) == keep \cup {id} \cup referenced_ids(expr)

\* Body::tree_shake: from the last expression to the first, an expression is
\* kept if it is impure or in keep (then also in the body of a function),
\* else it is removed.  The result is [body, keep].
RECURSIVE tree_shake(_, _), tree_shake_from(_, _, _)
tree_shake_from(body, keep, i) ==
    IF i = 0 THEN [body |-> body, keep |-> keep]
    ELSE IF ~is_pure(body[i].expression) \/ body[i].id \in keep
    THEN IF body[i].expression.kind = "Function"
         THEN tree_shake_from(
                 [body EXCEPT ![i].expression.body =
                     tree_shake(@, kept(keep, body[i].id, body[i].expression)).body],
                 tree_shake(body[i].expression.body,
                            kept(keep, body[i].id, body[i].expression)).keep,
                 i - 1)
         ELSE tree_shake_from(body, kept(keep, body[i].id, body[i].expression), i - 1)
    ELSE tree_shake_from(RemoveAt(body, i), keep, i - 1)

tree_shake(body, keep) ==
    tree_shake_from(body, keep \cup {body[Len(body)].id}, Len(body))

\* Redundant return references: a last expression that refers to the one
\* before it is dropped.
remove_redundant_return_references(body) ==
    IF /\ Len(body) >= 2
       /\ body[Len(body)].expression = Reference(body[Len(body) - 1].id)
    THEN SubSeq(body, 1, Len(body) - 1)
    ELSE body

\* The end of optimize_body: the expressions move back from the visible
\* ones into the body, then the passes over the whole body run.
finish_body(body, visible) ==
    [body |-> remove_redundant_return_references(
                  tree_shake(
                      eliminate_common_subtrees(
                          [i \in DOMAIN body |-> Entry(body[i].id, visible[body[i].id])]),
                      {}).body),
     visible |-> remove_all(visible, {body[i].id : i \in DOMAIN body})]

RECURSIVE optimize_body(_, _), optimize_body_from(_, _, _), optimize_expression(_, _)

\* The visible expressions of a function body: the outer ones and the
\* parameters of the function.
VisibleInside(visible, expr) ==
    [x \in DOMAIN visible \cup Range(expr.parameters) |->
        IF x \in Range(expr.parameters) THEN Parameter ELSE visible[x]]

\* The start of the outer loop of optimize_expression: for a function, its
\* parameters become visible, its body is optimized, and the parameters
\* are removed from the visible expressions again.  The result is
\* [expression, visible].
optimize_function(visible, expr) ==
    IF expr.kind = "Function"
    THEN LET inner == optimize_body(expr.body, VisibleInside(visible, expr))
         IN  [expression |-> [expr EXCEPT !.body = inner.body],
              visible |-> remove_all(inner.visible, Range(expr.parameters))]
    ELSE [expression |-> expr, visible |-> visible]

\* optimize_expression: first the body of a function, then the passes,
\* then the needs pattern.  The result is [expression, visible].
optimize_expression(visible, expr) ==
    LET start == optimize_function(visible, expr)
    IN  [expression |-> needs_true_to_nothing(start.visible,
                            optimize_until_unchanged(start.visible, start.expression)),
         visible |-> start.visible]

\* One iteration of the loop of optimize_body: the expression at index is
\* optimized and moves to the visible ones; a Parameter takes its place.
optimize_at(body, visible, index) ==
    LET optimized == optimize_expression(visible, body[index + 1].expression)
    IN  [body |-> [body EXCEPT ![index + 1].expression = Parameter],
         visible |-> insert(optimized.visible, body[index + 1].id, optimized.expression)]

optimize_body_from(body, visible, index) ==
    IF index >= Len(body) THEN [body |-> body, visible |-> visible]
    ELSE optimize_body_from(optimize_at(body, visible, index).body,
                            optimize_at(body, visible, index).visible, index + 1)

optimize_body(body, visible) ==
    finish_body(optimize_body_from(body, visible, 0).body,
                optimize_body_from(body, visible, 0).visible)

(***************************************************************************)
(* What a body does when it runs: the panic it ends in, if any.            *)
(***************************************************************************)
Panicked(reason, responsible) ==
    [panicked |-> TRUE, reason |-> reason, responsible |-> responsible]
Returns(value) == [panicked |-> FALSE, value |-> value]

\* A call of the needs function: the condition is True or False and the
\* reason a text, else the call panics; with False it panics with the reason.
needs_call(arguments, responsible) ==
    IF arguments[1] \notin {Tag("True"), Tag("False")}
    THEN Panicked("The condition must be either True or False.", responsible)
    ELSE IF arguments[2].kind # "Text"
    THEN Panicked("The reason must be a text.", responsible)
    ELSE IF arguments[1] = Tag("False")
    THEN Panicked(arguments[2].text, arguments[3])
    ELSE Returns(nothing)

\* The value of an expression, or the panic, with the values env of the IDs.
evaluate(expr, env) ==
    CASE expr.kind = "Reference" -> Returns(env[expr.id])
      [] expr.kind = "Panic" ->
            Panicked(env[expr.reason], env[expr.responsible])
      [] expr.kind = "Call" ->
            IF /\ env[expr.function].kind = "Function"
               /\ "needs" \in env[expr.function].original_hirs
            THEN needs_call([i \in DOMAIN expr.arguments |->
                                env[expr.arguments[i]]],
                            env[expr.responsible])
            ELSE Panicked("not a function", env[expr.responsible])
      [] OTHER -> Returns(expr)

RECURSIVE run(_, _, _)
run(body, i, env) ==
    IF i > Len(body) THEN Returns(env[body[Len(body)].id])
    ELSE IF evaluate(body[i].expression, env).panicked
    THEN evaluate(body[i].expression, env)
    ELSE run(body, i + 1,
             insert(env, body[i].id, evaluate(body[i].expression, env).value))

\* The effects of a module body that a fiber running it shows.
Effects(body) ==
    IF run(body, 1, <<>>).panicked THEN run(body, 1, <<>>) ELSE [panicked |-> FALSE]

(***************************************************************************)
(* The bodies of the model: a condition $1, a reason $2, a HIR ID $3, the  *)
(* needs function $4, and up to MaxTail further expressions.               *)
(***************************************************************************)
MaxTail == 3

\* The needs function that every module gets.  Its body stands for the one
\* that the lowering generates; a call of it is evaluated by needs_call.
needs_function ==
    Function({"needs"}, <<11, 12, 13, 14>>, 15, <<Entry(16, Panic(12, 13))>>)

TailTemplates ==
    {[t |-> "nothing"], [t |-> "panic"]}
    \cup {[t |-> "reference", to |-> j] : j \in (1..(3 + MaxTail)) \ {4}}
    \cup {[t |-> "call", condition |-> j] : j \in {1} \cup (5..(3 + MaxTail))}
    \cup {[t |-> "function", body |-> b] : b \in {"parameter", "call", "unused"}}

\* The expression of a template at position i of the body.
FromTemplate(template, i) ==
    CASE template.t = "nothing" -> nothing
      [] template.t = "panic" -> Panic(2, 3)
      [] template.t = "reference" -> Reference(template.to)
      [] template.t = "call" -> Call(4, <<template.condition, 2, 3, 3>>, 3)
      [] template.t = "function" ->
            Function({"f"}, <<20 + i>>, 30 + i,
                CASE template.body = "parameter" -> <<Entry(40 + i, Reference(20 + i))>>
                  [] template.body = "call" ->
                        <<Entry(40 + i, Call(4, <<20 + i, 2, 3, 3>>, 30 + i))>>
                  [] template.body = "unused" ->
                        <<Entry(40 + i, Reference(2)), Entry(50 + i, Reference(20 + i))>>)

\* A tail refers to earlier expressions only, and calls or refers to no
\* function but the needs function.
WellFormedTail(tail) ==
    \A k \in DOMAIN tail :
        LET target == IF tail[k].t = "reference" THEN tail[k].to
                      ELSE IF tail[k].t = "call" THEN tail[k].condition
                      ELSE 1
        IN  /\ target < 4 + k
            /\ target > 4 => tail[target - 4].t # "function"

Bodies ==
    {<<Entry(1, Tag(c)), Entry(2, r), Entry(3, HirId("h")), Entry(4, needs_function)>>
        \o [k \in DOMAIN tail |-> Entry(4 + k, FromTemplate(tail[k], 4 + k))] :
     c \in {"True", "False"}, r \in {Text("t"), IntExpression(3)},
     tail \in {t \in SeqUpTo(TailTemplates, MaxTail) : WellFormedTail(t)}}

OptInit ==
    /\ optOriginal \in Bodies
    /\ optBody = optOriginal
    /\ optIndex = 0
    /\ optVisible = <<>>
    /\ optPhase = "body"

\* One iteration of the loop of optimize_body for the body of the module.
OptimizeExpression ==
    /\ optPhase = "body"
    /\ optIndex < Len(optBody)
    /\ optBody' = optimize_at(optBody, optVisible, optIndex).body
    /\ optVisible' = optimize_at(optBody, optVisible, optIndex).visible
    /\ optIndex' = optIndex + 1
    /\ UNCHANGED <<optOriginal, optPhase>>

\* The end of optimize_body for the body of the module.
FinishBody ==
    /\ optPhase = "body"
    /\ optIndex >= Len(optBody)
    /\ optBody' = finish_body(optBody, optVisible).body
    /\ optVisible' = finish_body(optBody, optVisible).visible
    /\ optPhase' = "done"
    /\ UNCHANGED <<optOriginal, optIndex>>

InitOpt == OptInit /\ IdleExcept("opt")
NextOpt ==
    \/ OptimizeExpression /\ FrameExcept("opt")
    \/ FinishBody /\ FrameExcept("opt")
SpecOpt == InitOpt /\ [][NextOpt]_vars

(***************************************************************************)
(* C3.  The optimizer preserves the effects of a body.                     *)
(***************************************************************************)
\* C3: the optimized body has the same fiber-observable effects as the
\* original body: it panics exactly when the original panics, with the
\* same reason and the same responsible ID.
C3_SameEffects ==
    optPhase = "done" => Effects(optBody) = Effects(optOriginal)

\* The optimizer made Nothing of a call of needs, and the optimized body
\* does not panic although the original does.
C3_Witness ==
    /\ optPhase = "done"
    /\ \E i \in DOMAIN optOriginal :
          /\ optOriginal[i].expression.kind = "Call"
          /\ \A j \in DOMAIN optBody :
                optBody[j].id = optOriginal[i].id => optBody[j].expression = nothing
    /\ Effects(optOriginal).panicked
    /\ ~Effects(optBody).panicked

(***************************************************************************)
(* C4.  Every ID is defined once and referenced only where it is in scope. *)
(***************************************************************************)
\* The body of the module as validation sees it: the expressions that are
\* with the visible ones for the time being are in their places.
CurrentBody ==
    [i \in DOMAIN optBody |->
        IF optBody[i].expression = Parameter
        THEN Entry(optBody[i].id, optVisible[optBody[i].id])
        ELSE optBody[i]]

\* The IDs that a body defines, as often as it defines them: of its
\* expressions, and of the parameters and the bodies of its functions.
RECURSIVE defined_ids(_)
defined_ids(body) ==
    Flatten([i \in DOMAIN body |->
        IF body[i].expression.kind = "Function"
        THEN <<body[i].id>> \o body[i].expression.parameters
             \o <<body[i].expression.responsible_parameter>>
             \o defined_ids(body[i].expression.body)
        ELSE <<body[i].id>>])

\* Every ID that the body refers to is in scope: a parameter of an
\* enclosing function, or defined earlier in the body or an enclosing one.
RECURSIVE ReferencesInScope(_, _)
ReferencesInScope(body, scope) ==
    \A i \in DOMAIN body :
        IF body[i].expression.kind = "Function"
        THEN ReferencesInScope(
                 body[i].expression.body,
                 scope \cup {body[j].id : j \in 1..(i - 1)}
                       \cup Range(body[i].expression.parameters)
                       \cup {body[i].expression.responsible_parameter})
        ELSE referenced_ids(body[i].expression)
                 \subseteq scope \cup {body[j].id : j \in 1..(i - 1)}

Modules == {"A", "B", "C"}
MaxUses == 2

\* The module compile_lir is called with.
CompiledModule == "A"

\* A request of the compiled module, and per module one start and one end
\* of its query and one request per use.
MaxRequests == 1 + Cardinality(Modules) * (MaxUses + 2)

NoResult == [kind |-> "NoResult"]
Multiple(body) == [kind |-> "Multiple", body |-> body]

\* MirError::ModuleHasCycle and ModuleError::DoesNotExist.
ModuleHasCycle(cycle) == [kind |-> "ModuleHasCycle", cycle |-> cycle]
DoesNotExist == [kind |-> "DoesNotExist", cycle |-> <<>>]

\* CompilerError::for_whole_module.
for_whole_module(module, payload) == [module |-> module, payload |-> payload]

\* The text of a payload, a sequence of words: a cycle is named by the
\* queries that take part in it.
to_string(payload) ==
    IF payload.kind = "ModuleHasCycle"
    THEN <<"The module contains a cycle:">> \o payload.cycle
    ELSE <<"The module does not exist.">>

Ok(mir, errors) == [ok |-> TRUE, mir |-> mir, errors |-> errors, error |-> NoResult]
Err(error) == [ok |-> FALSE, mir |-> <<>>, errors |-> {}, error |-> error]

\* Mir::build with push_text, push_hir_id and push_panic: the IDs count
\* from zero.
panic_mir(reason, hir) ==
    <<Entry(0, Text(reason)), Entry(1, HirId(hir)), Entry(2, Panic(0, 1))>>

\* A recovery that returns the error instead of a MIR.
recover_with_error(cycle, module) == Err(ModuleHasCycle(cycle))

\* recover_from_cycle.
recover_from_cycle(cycle, module) ==
    Ok(panic_mir(to_string(for_whole_module(module, ModuleHasCycle(cycle)).payload),
                 module),
       {for_whole_module(module, ModuleHasCycle(cycle))})

\* The start of compile_lir: an error of optimized_mir becomes a MIR that
\* panics, and an error of the whole module.
compile_lir(result, module) ==
    IF result.ok
    THEN [mir |-> result.mir, errors |-> result.errors]
    ELSE [mir |-> panic_mir(to_string(result.error), "user"),
          errors |-> {for_whole_module(module, result.error)}]

\* A query that starts to run.
Query(module) ==
    [module |-> module, index |-> 0, body |-> <<>>, errors |-> {}, cycle |-> <<>>]

\* Module folding: the MIR of the used module takes the place of the use
\* expression and its errors join those of the module; a module that has no
\* MIR leaves a panic.
fold(query, result) ==
    [query EXCEPT
        !.index = @ + 1,
        !.body = Append(@, Entry(query.index,
                     Multiple(compile_lir(result, query.module).mir))),
        !.errors = @ \cup compile_lir(result, query.module).errors]

\* The innermost running query receives the result of its request.
Deliver(stack, result) ==
    IF stack = <<>>
    THEN stack
    ELSE [stack EXCEPT ![Len(stack)] = fold(@, result)]

\* The module the next request is for: the compiled module at first, then
\* the next use of the innermost running query.
Requested(m) ==
    /\ cycLir = NoResult
    /\ IF cycStack = <<>>
       THEN m = CompiledModule
       ELSE /\ cycStack[Len(cycStack)].index < Len(cycUses[cycStack[Len(cycStack)].module])
            /\ m = cycUses[cycStack[Len(cycStack)].module][cycStack[Len(cycStack)].index + 1]

Running(m) == \E i \in DOMAIN cycStack : cycStack[i].module = m

\* The queries of the cycle that a request for m closes: the query of m and
\* those it has requested since.
Participants(m) ==
    {i \in DOMAIN cycStack :
        \E j \in DOMAIN cycStack : j <= i /\ cycStack[j].module = m}

CycleOf(m) ==
    LET first == CHOOSE i \in Participants(m) : \A j \in Participants(m) : i <= j
    IN  [i \in 1..(Len(cycStack) - first + 1) |-> cycStack[first + i - 1].module]

CycleInit ==
    /\ cycUses \in [Modules -> SeqUpTo(Modules, MaxUses)]
    /\ cycExisting \in SUBSET Modules
    /\ cycStack = <<>>
    /\ cycMemo = [m \in Modules |-> NoResult]
    /\ cycRecovered = {}
    /\ cycRequests = 0
    /\ cycLir = NoResult

\* optimized_mir of a module that is neither computed nor running and whose
\* source exists: the query starts.
OptimizedMir ==
    \E m \in Modules :
        /\ Requested(m)
        /\ cycMemo[m] = NoResult
        /\ ~Running(m)
        /\ m \in cycExisting
        /\ cycStack' = Append(cycStack, Query(m))
        /\ cycRequests' = cycRequests + 1
        /\ UNCHANGED <<cycUses, cycExisting, cycMemo, cycRecovered, cycLir>>

\* optimized_mir of a module without a source: db.mir fails and the query
\* returns the error.
ModuleError ==
    \E m \in Modules :
        /\ Requested(m)
        /\ cycMemo[m] = NoResult
        /\ ~Running(m)
        /\ m \notin cycExisting
        /\ cycMemo' = [cycMemo EXCEPT ![m] = Err(DoesNotExist)]
        /\ cycStack' = Deliver(cycStack, Err(DoesNotExist))
        /\ cycRequests' = cycRequests + 1
        /\ UNCHANGED <<cycUses, cycExisting, cycRecovered, cycLir>>

\* A request for a module whose query has returned: the cache has the
\* result.
FoldModule ==
    \E m \in Modules :
        /\ Requested(m)
        /\ cycStack # <<>>
        /\ cycMemo[m] # NoResult
        /\ cycStack' = Deliver(cycStack, cycMemo[m])
        /\ cycRequests' = cycRequests + 1
        /\ UNCHANGED <<cycUses, cycExisting, cycMemo, cycRecovered, cycLir>>

\* A request for a module whose query is running: the cache marks the
\* queries of the cycle and answers with recover_from_cycle.
RecoverFromCycle ==
    \E m \in Modules :
        /\ Requested(m)
        /\ cycMemo[m] = NoResult
        /\ Running(m)
        /\ cycStack' = Deliver(
               [i \in DOMAIN cycStack |->
                   IF i \in Participants(m)
                   THEN [cycStack[i] EXCEPT !.cycle = CycleOf(m)]
                   ELSE cycStack[i]],
               recover_from_cycle(CycleOf(m), m))
        /\ cycRecovered' = cycRecovered \cup
               {[module |-> m,
                 requester |-> cycStack[Len(cycStack)].module,
                 cycle |-> CycleOf(m),
                 result |-> recover_from_cycle(CycleOf(m), m)]}
        /\ cycRequests' = cycRequests + 1
        /\ UNCHANGED <<cycUses, cycExisting, cycMemo, cycLir>>

\* The result of a query that has run: what it computed, or for a query of
\* a cycle what recover_from_cycle returns.
result_of(query) ==
    IF query.cycle # <<>>
    THEN recover_from_cycle(query.cycle, query.module)
    ELSE Ok(query.body, query.errors)

\* The innermost query has folded all its uses: optimized_mir returns, the
\* cache keeps the result, and the requesting query receives it.
OptimizedMirReturns ==
    /\ cycLir = NoResult
    /\ cycStack # <<>>
    /\ cycStack[Len(cycStack)].index = Len(cycUses[cycStack[Len(cycStack)].module])
    /\ cycMemo' = [cycMemo EXCEPT ![cycStack[Len(cycStack)].module] =
                       result_of(cycStack[Len(cycStack)])]
    /\ cycStack' = Deliver(SubSeq(cycStack, 1, Len(cycStack) - 1),
                           result_of(cycStack[Len(cycStack)]))
    /\ cycRequests' = cycRequests + 1
    /\ UNCHANGED <<cycUses, cycExisting, cycRecovered, cycLir>>

\* compile_lir has the result of optimized_mir for the compiled module.
CompileLir ==
    /\ cycLir = NoResult
    /\ cycStack = <<>>
    /\ cycMemo[CompiledModule] # NoResult
    /\ cycLir' = compile_lir(cycMemo[CompiledModule], CompiledModule)
    /\ cycRequests' = cycRequests + 1
    /\ UNCHANGED <<cycUses, cycExisting, cycStack, cycMemo, cycRecovered>>

InitCycle == CycleInit /\ IdleExcept("cycle")
NextCycle ==
    \/ OptimizedMir /\ FrameExcept("cycle")
    \/ ModuleError /\ FrameExcept("cycle")
    \/ FoldModule /\ FrameExcept("cycle")
    \/ RecoverFromCycle /\ FrameExcept("cycle")
    \/ OptimizedMirReturns /\ FrameExcept("cycle")
    \/ CompileLir /\ FrameExcept("cycle")
SpecCycle == InitCycle /\ [][NextCycle]_vars

(***************************************************************************)
(* C5.  A module cycle is answered with a MIR that panics.                 *)
(***************************************************************************)
\* The MIR is a text, a HIR ID and a panic with the text as its reason.
IsPanicMir(mir) ==
    /\ Len(mir) = 3
    /\ mir[1].expression.kind = "Text"
    /\ mir[2].expression.kind = "HirId"
    /\ mir[3].expression = Panic(mir[1].id, mir[2].id)

\* Some step of the cache or of compile_lir can be taken.
CycleCanStep ==
    \/ \E m \in Modules : Requested(m)
    \/ /\ cycStack # <<>>
       /\ cycStack[Len(cycStack)].index = Len(cycUses[cycStack[Len(cycStack)].module])
    \/ cycStack = <<>> /\ cycMemo[CompiledModule] # NoResult

\* C5: a request for the optimized MIR of a module whose optimized MIR is
\* being computed returns successfully, with a MIR that is a panic whose
\* reason names the modules of the cycle, and with the ModuleHasCycle error
\* of that module as the only error.  The compilation goes on: until
\* compile_lir has its MIR a step can be taken, the number of requests stays
\* below a bound that depends on the number of modules and uses only, and
\* when compile_lir has its MIR the query of every module that requested a
\* module of a cycle has returned.
C5_CycleRecovers ==
    /\ \A r \in cycRecovered :
          /\ r.result.ok
          /\ IsPanicMir(r.result.mir)
          /\ Range(r.cycle) \subseteq Range(r.result.mir[1].expression.text)
          /\ r.module \in Range(r.cycle)
          /\ r.result.errors = {for_whole_module(r.module, ModuleHasCycle(r.cycle))}
    /\ cycRequests <= MaxRequests
    /\ cycLir = NoResult => CycleCanStep
    /\ cycLir # NoResult =>
          \A r \in cycRecovered : cycMemo[r.requester] # NoResult

\* A uses B and B uses A: the request of B for A was answered, B went on to
\* fold a second use, and compile_lir has a MIR for A with the
\* ModuleHasCycle error.
C5_Witness ==
    /\ cycLir # NoResult
    /\ \E r \in cycRecovered :
          /\ r.module = "A"
          /\ r.requester = "B"
          /\ r.cycle = <<"A", "B">>
          /\ Len(cycUses["B"]) = 2
          /\ cycUses["B"][1] = "A"
          /\ for_whole_module("A", ModuleHasCycle(r.cycle)) \in cycLir.errors

(***************************************************************************)
(* The MIR-to-LIR compiler.  A LoweringContext is [lir, constants, stack,  *)
(* instructions]: the instructions of the functions compiled so far, the   *)
(* constants map (ID -> constant), the IDs whose values the operand stack  *)
(* holds, and the instructions of the function that is compiled.           *)
(***************************************************************************)
MaxBody == 3

PushConstant(constant) == [kind |-> "PushConstant", constant |-> constant]
PushFromStack(offset) == [kind |-> "PushFromStack", offset |-> offset]
PopMultipleBelowTop(n) == [kind |-> "PopMultipleBelowTop", n |-> n]
CreateTag(symbol) == [kind |-> "CreateTag", symbol |-> symbol]
CreateList(num_items) == [kind |-> "CreateList", num_items |-> num_items]
CreateStruct(num_fields) == [kind |-> "CreateStruct", num_fields |-> num_fields]
CreateFunction(captured_offsets, num_args, body) ==
    [kind |-> "CreateFunction", captured |-> captured_offsets, num_args |-> num_args,
     body |-> body]
CallInstruction(num_args) == [kind |-> "Call", num_args |-> num_args]
TailCall(num_locals, num_args) ==
    [kind |-> "TailCall", num_locals_to_pop |-> num_locals, num_args |-> num_args]
Return == [kind |-> "Return"]
PanicInstruction == [kind |-> "Panic"]
TraceCallStartsInstruction(num_args) == [kind |-> "TraceCallStarts", num_args |-> num_args]
TraceCallEndsInstruction == [kind |-> "TraceCallEnds"]
TraceExpressionEvaluatedInstruction == [kind |-> "TraceExpressionEvaluated"]
TraceFoundFuzzableFunctionInstruction == [kind |-> "TraceFoundFuzzableFunction"]

\* The expressions that trace.
TraceExpressions ==
    {"TraceCallStarts", "TraceCallEnds", "TraceExpressionEvaluated",
     "TraceFoundFuzzableFunction"}

\* The constant of a function that captures nothing.
FunctionConstant(num_args, body) ==
    [kind |-> "Function", captured |-> <<>>, num_args |-> num_args, body |-> body]

\* StackExt::pop_multiple.
pop_multiple(stack, n) == SubSeq(stack, 1, Len(stack) - n)

\* StackExt::find_id: how far below the top the last entry of the ID is.
find_id(stack, id) ==
    Len(stack) - (CHOOSE i \in DOMAIN stack :
                     /\ stack[i] = id
                     /\ \A j \in DOMAIN stack : stack[j] = id => j <= i)

\* Instruction::apply_to_stack: the stack when the control flow continues
\* after the instruction.  The Create instructions pop their arguments and
\* push the result; a call pops the responsible HIR ID, the arguments and
\* the function and pushes the return value; the trace instructions pop
\* what was pushed for them and push nothing.
apply_to_stack(instruction, stack, result) ==
    CASE instruction.kind = "PushConstant" -> Append(stack, result)
      [] instruction.kind = "PushFromStack" -> Append(stack, result)
      [] instruction.kind = "PopMultipleBelowTop" ->
            Append(pop_multiple(stack, instruction.n + 1), stack[Len(stack)])
      [] instruction.kind = "CreateTag" -> Append(pop_multiple(stack, 1), result)
      [] instruction.kind = "CreateList" ->
            Append(pop_multiple(stack, instruction.num_items), result)
      [] instruction.kind = "CreateStruct" ->
            Append(pop_multiple(stack, 2 * instruction.num_fields), result)
      [] instruction.kind = "CreateFunction" ->
            Append(pop_multiple(stack, Len(instruction.captured)), result)
      [] instruction.kind = "Call" ->
            Append(pop_multiple(stack, instruction.num_args + 2), result)
      [] instruction.kind = "TailCall" ->
            Append(pop_multiple(stack, instruction.num_args + 2
                                           + instruction.num_locals_to_pop), result)
      [] instruction.kind = "Return" -> stack
      [] instruction.kind = "Panic" -> Append(pop_multiple(stack, 2), result)
      [] instruction.kind = "TraceCallStarts" ->
            pop_multiple(stack, instruction.num_args + 3)
      [] instruction.kind = "TraceCallEnds" -> pop_multiple(stack, 1)
      [] instruction.kind = "TraceExpressionEvaluated" -> pop_multiple(stack, 2)
      [] instruction.kind = "TraceFoundFuzzableFunction" -> pop_multiple(stack, 2)

\* An emit that leaves the stack as it is.
emit_without_stack(context, id, instruction) ==
    [context EXCEPT !.instructions = Append(@, instruction)]

\* LoweringContext::emit.
emit(context, id, instruction) ==
    [context EXCEPT !.stack = apply_to_stack(instruction, @, id),
                    !.instructions = Append(@, instruction)]

\* LoweringContext::emit_reference_to.
emit_reference_to(context, id) ==
    IF id \in DOMAIN context.constants
    THEN emit(context, id, PushConstant(context.constants[id]))
    ELSE emit(context, id, PushFromStack(find_id(context.stack, id)))

\* emit_reference_to for every ID of a sequence, in its order.
RECURSIVE emit_references(_, _)
emit_references(context, ids) ==
    IF ids = <<>>
    THEN context
    ELSE emit_references(emit_reference_to(context, Head(ids)), Tail(ids))

\* constants.insert.
with_constant(context, id, constant) ==
    [context EXCEPT !.constants = (id :> constant) @@ @]

\* The IDs of a set in ascending order.
RECURSIVE Ascending(_)
Ascending(ids) ==
    IF ids = {}
    THEN <<>>
    ELSE <<CHOOSE x \in ids : \A y \in ids : x <= y>>
         \o Ascending(ids \ {CHOOSE x \in ids : \A y \in ids : x <= y})

\* Expression::captured_ids: what a function refers to and does not define.
captured_ids(expr) ==
    referenced_ids(expr)
        \ (Range(expr.parameters) \cup {expr.responsible_parameter}
           \cup Range(defined_ids(expr.body)))

\* The captured IDs that are no constants, in the order the compiler
\* iterates over them.
captured_on_stack(context, expr) ==
    Ascending({c \in captured_ids(expr) : c \notin DOMAIN context.constants})

\* The keys and values of struct fields, in their order.
keys_and_values(fields) ==
    [i \in 1..(2 * Len(fields)) |-> fields[(i + 1) \div 2][2 - (i % 2)]]

\* A count that includes the top of the stack.
num_locals_with_top(stack) == Len(stack)

\* TailCall::num_locals_to_pop: the entries of the stack below the top.
num_locals_to_pop(stack) == Len(stack) - 1

\* The start of compile_function: the stack holds the captured values, the
\* parameters and the responsible parameter.
start_function(lir, constants, captured_values, parameters, responsible_parameter) ==
    [lir |-> lir, constants |-> constants,
     stack |-> captured_values \o parameters \o <<responsible_parameter>>,
     instructions |-> <<>>]

\* compile_function after the expressions: the return value is pushed unless
\* it is on top already.
with_return_value(context, body) ==
    IF context.stack[Len(context.stack)] # body[Len(body)].id
    THEN emit_reference_to(context, body[Len(body)].id)
    ELSE context

\* A function end that returns without popping the locals.
return_without_pop(context) == emit(context, 0, Return)

\* A call as the last instruction becomes a tail call; otherwise the locals
\* are popped below the return value and the function returns.
with_return(context) ==
    IF context.instructions[Len(context.instructions)].kind = "Call"
    THEN [context EXCEPT !.instructions =
             SubSeq(@, 1, Len(@) - 1)
             \o <<TailCall(num_locals_to_pop(context.stack), @[Len(@)].num_args)>>]
    ELSE emit(emit(context, 0, PopMultipleBelowTop(Len(context.stack) - 1)), 0, Return)

\* The end of compile_function: the instructions join those of the LIR.
append_to_lir(context) == [context EXCEPT !.lir = @ \o context.instructions]

finish_function(context, body) ==
    append_to_lir(with_return(with_return_value(context, body)))

RECURSIVE compile_function(_, _, _, _, _, _), compile_expression(_, _, _), compile_body(_, _, _)

\* The context after a function expression: the function is a constant if
\* it captures nothing, else the captured values are pushed and
\* CreateFunction creates it.  inner is the context of the compiled body.
create_function(context, id, expr, captured_values, inner) ==
    IF captured_values = <<>>
    THEN with_constant([context EXCEPT !.lir = inner.lir, !.constants = inner.constants],
                       id,
                       FunctionConstant(Len(expr.parameters),
                                        Len(inner.lir) - Len(inner.instructions)))
    ELSE emit(emit_references([context EXCEPT !.lir = inner.lir,
                                              !.constants = inner.constants],
                              captured_values),
              id,
              CreateFunction(
                  [i \in DOMAIN captured_values |->
                      find_id(emit_references(context, captured_values).stack,
                              captured_values[i])],
                  Len(expr.parameters),
                  Len(inner.lir) - Len(inner.instructions)))

\* LoweringContext::compile_expression.
compile_expression(context, id, expr) ==
    CASE expr.kind \in {"Int", "Text", "Builtin", "HirId"} ->
            with_constant(context, id, expr)
      [] expr.kind = "Reference" ->
            IF expr.id \in DOMAIN context.constants
            THEN with_constant(context, id, context.constants[expr.id])
            ELSE emit(context, id, PushFromStack(find_id(context.stack, expr.id)))
      [] expr.kind = "Tag" ->
            IF expr.value = <<>>
            THEN with_constant(context, id, expr)
            ELSE IF expr.value[1] \in DOMAIN context.constants
            THEN with_constant(context, id,
                     [expr EXCEPT !.value = <<context.constants[expr.value[1]]>>])
            ELSE emit(emit_reference_to(context, expr.value[1]), id,
                      CreateTag(expr.symbol))
      [] expr.kind = "List" ->
            IF Range(expr.items) \subseteq DOMAIN context.constants
            THEN with_constant(context, id,
                     [expr EXCEPT !.items =
                         [i \in DOMAIN expr.items |-> context.constants[expr.items[i]]]])
            ELSE emit(emit_references(context, expr.items), id,
                      CreateList(Len(expr.items)))
      [] expr.kind = "Struct" ->
            IF Range(keys_and_values(expr.fields)) \subseteq DOMAIN context.constants
            THEN with_constant(context, id,
                     [expr EXCEPT !.fields =
                         [i \in DOMAIN expr.fields |->
                             <<context.constants[expr.fields[i][1]],
                               context.constants[expr.fields[i][2]]>>]])
            ELSE emit(emit_references(context, keys_and_values(expr.fields)), id,
                      CreateStruct(Len(expr.fields)))
      [] expr.kind = "Function" ->
            create_function(
                context, id, expr, captured_on_stack(context, expr),
                compile_function(context.lir, context.constants,
                                 captured_on_stack(context, expr), expr.parameters,
                                 expr.responsible_parameter, expr.body))
      [] expr.kind = "Call" ->
            emit(emit_references(context, <<expr.function>> \o expr.arguments
                                              \o <<expr.responsible>>),
                 id, CallInstruction(Len(expr.arguments)))
      [] expr.kind = "Panic" ->
            emit(emit_references(context, <<expr.reason, expr.responsible>>),
                 id, PanicInstruction)
      [] expr.kind = "TraceCallStarts" ->
            emit(emit_references(context, <<expr.hir_call, expr.function>>
                                              \o expr.arguments \o <<expr.responsible>>),
                 id, TraceCallStartsInstruction(Len(expr.arguments)))
      [] expr.kind = "TraceCallEnds" ->
            emit(emit_reference_to(context, expr.return_value), id,
                 TraceCallEndsInstruction)
      [] expr.kind = "TraceExpressionEvaluated" ->
            emit(emit_references(context, <<expr.hir_expression, expr.value>>), id,
                 TraceExpressionEvaluatedInstruction)
      [] expr.kind = "TraceFoundFuzzableFunction" ->
            emit(emit_references(context, <<expr.hir_definition, expr.function>>), id,
                 TraceFoundFuzzableFunctionInstruction)

\* The loop of compile_function over the expressions of the body, from
\* index on.
compile_body(context, body, index) ==
    IF index > Len(body)
    THEN context
    ELSE compile_body(
             compile_expression(context, body[index].id, body[index].expression),
             body, index + 1)

\* compile_function.
compile_function(lir, constants, captured_values, parameters, responsible_parameter, body) ==
    finish_function(
        compile_body(start_function(lir, constants, captured_values, parameters,
                                    responsible_parameter),
                     body, 1),
        body)

(***************************************************************************)
(* The functions that are compiled: the module function (responsible       *)
(* parameter $3) or a function that captures $1 and has the parameter $2;  *)
(* $9 is a HIR ID that is a constant already.  The body has up to MaxBody  *)
(* expressions $4, $5, ...; an expression refers to what is visible: the   *)
(* frame, the constant and the earlier expressions that have a value.  The *)
(* last expression, the return value, is no trace expression.  The body is *)
(* drawn expression by expression, as the loop gets to it.                 *)
(***************************************************************************)
LirFrames ==
    {[captured |-> <<>>, parameters |-> <<>>, responsible_parameter |-> 3],
     [captured |-> <<1>>, parameters |-> <<2>>, responsible_parameter |-> 3]}

InitialConstants == (9 :> HirId("h"))

\* What an expression after body can refer to.
LirVisible(frame, body) ==
    Range(frame.captured) \cup Range(frame.parameters)
        \cup {frame.responsible_parameter, 9}
        \cup {body[j].id : j \in {k \in DOMAIN body :
                                     body[k].expression.kind \notin TraceExpressions}}

\* The value before an expression after body: the last expression that has
\* one, or the responsible parameter.
LirPrevious(frame, body) ==
    CHOOSE x \in LirVisible(frame, body) \ {9} :
        \A y \in LirVisible(frame, body) \ {9} : y <= x

LirTemplates ==
    {"Int", "Text", "Tag", "Reference", "List", "Function", "Call",
     "TagWith", "Struct", "FunctionCall", "Panic", "TraceCallStarts",
     "TraceCallEnds", "TraceExpressionEvaluated", "TraceFoundFuzzableFunction"}

\* The templates whose reference is any visible ID; the reference of the
\* others is the previous value.
LirAnyReference == {"Reference", "List", "Function", "Call"}

LirExpression(template, i, r) ==
    CASE template = "Int" -> IntExpression(7)
      [] template = "Text" -> Text("t")
      [] template = "Tag" -> Tag("Nothing")
      [] template = "Reference" -> Reference(r)
      [] template = "List" -> List(<<r, 3>>)
      [] template = "Function" ->
            Function({"f"}, <<10 * i + 10>>, 10 * i + 11,
                     <<Entry(10 * i + 12, List(<<r, 9>>))>>)
      [] template = "Call" -> Call(r, <<3>>, 3)
      [] template = "TagWith" -> TagWith("Some", r)
      [] template = "Struct" -> Struct(<<<<9, r>>>>)
      [] template = "FunctionCall" ->
            Function({"f"}, <<10 * i + 10>>, 10 * i + 11,
                     <<Entry(10 * i + 12, Call(r, <<10 * i + 10>>, 10 * i + 11))>>)
      [] template = "Panic" -> Panic(r, 3)
      [] template = "TraceCallStarts" -> TraceCallStarts(9, r, <<3>>, 3)
      [] template = "TraceCallEnds" -> TraceCallEnds(r)
      [] template = "TraceExpressionEvaluated" -> TraceExpressionEvaluated(9, r)
      [] template = "TraceFoundFuzzableFunction" -> TraceFoundFuzzableFunction(9, r)

\* The expressions that can follow body.
LirExpressions(frame, body) ==
    {LirExpression(template, Len(body) + 1, r) :
        template \in LirAnyReference, r \in LirVisible(frame, body)}
    \cup {LirExpression(template, Len(body) + 1, LirPrevious(frame, body)) :
             template \in LirTemplates \ LirAnyReference}

LirInit ==
    /\ \E frame \in LirFrames :
          lirFunction = [captured |-> frame.captured,
                         parameters |-> frame.parameters,
                         responsible_parameter |-> frame.responsible_parameter,
                         body |-> <<>>]
    /\ lirContext = start_function(<<>>, InitialConstants, lirFunction.captured,
                                   lirFunction.parameters,
                                   lirFunction.responsible_parameter)
    /\ lirBefore = lirContext
    /\ lirIndex = 0
    /\ lirPhase = "body"

\* One iteration of the loop of compile_function: compile_expression for
\* the next expression of the body, which is any expression that can
\* follow the expressions before it.
CompileExpression ==
    /\ lirPhase = "body"
    /\ lirIndex < MaxBody
    /\ \E expr \in LirExpressions(lirFunction, lirFunction.body) :
          /\ lirFunction' = [lirFunction EXCEPT
                                !.body = Append(@, Entry(3 + lirIndex + 1, expr))]
          /\ lirContext' = compile_expression(lirContext, 3 + lirIndex + 1, expr)
    /\ lirBefore' = lirContext
    /\ lirIndex' = lirIndex + 1
    /\ UNCHANGED lirPhase

\* The end of compile_function, after the last expression of the body.
FinishFunction ==
    /\ lirPhase = "body"
    /\ lirIndex > 0
    /\ lirFunction.body[lirIndex].expression.kind \notin TraceExpressions
    /\ lirBefore' = lirContext
    /\ lirContext' = finish_function(lirContext, lirFunction.body)
    /\ lirPhase' = "done"
    /\ UNCHANGED <<lirFunction, lirIndex>>

InitLir == LirInit /\ IdleExcept("lir")
NextLir ==
    \/ CompileExpression /\ FrameExcept("lir")
    \/ FinishFunction /\ FrameExcept("lir")
SpecLir == InitLir /\ [][NextLir]_vars

(***************************************************************************)
(* C6.  What compile_expression does for an expression.                    *)
(***************************************************************************)
\* The expression that compile_expression has just compiled.
LirCompiled == lirFunction.body[lirIndex]

\* The ID is in the constants map and no instruction was emitted.
RecordedAsConstant ==
    /\ LirCompiled.id \in DOMAIN lirContext.constants
    /\ lirContext.instructions = lirBefore.instructions
    /\ lirContext.stack = lirBefore.stack

\* Instructions were emitted, and the stack is what it was with one more
\* entry, the value of the ID.
PushedOneEntry ==
    /\ Len(lirContext.instructions) > Len(lirBefore.instructions)
    /\ SubSeq(lirContext.instructions, 1, Len(lirBefore.instructions))
          = lirBefore.instructions
    /\ lirContext.stack = Append(lirBefore.stack, LirCompiled.id)
    /\ LirCompiled.id \notin DOMAIN lirContext.constants

\* Instructions were emitted, and the stack is what it was.
EmittedWithoutEntry ==
    /\ Len(lirContext.instructions) > Len(lirBefore.instructions)
    /\ SubSeq(lirContext.instructions, 1, Len(lirBefore.instructions))
          = lirBefore.instructions
    /\ lirContext.stack = lirBefore.stack
    /\ LirCompiled.id \notin DOMAIN lirContext.constants

\* C6 as the specification states it: for every expression the compiler
\* either records the ID in the constants map and emits no instruction, or
\* emits instructions whose net effect on the stack is to push one entry,
\* the value of the ID -- one of the two and not both.
C6_ConstantOrPush ==
    (lirPhase = "body" /\ lirIndex > 0) =>
        /\ RecordedAsConstant \/ PushedOneEntry
        /\ ~(RecordedAsConstant /\ PushedOneEntry)

\* C6 as the code has it: for every expression that is no trace expression
\* the compiler either records the ID in the constants map and emits no
\* instruction, or emits instructions whose net effect on the stack is to
\* push one entry, the value of the ID; for a trace expression it emits
\* instructions whose net effect on the stack is nothing, and records no
\* constant.
C6_ConstantPushOrTrace ==
    (lirPhase = "body" /\ lirIndex > 0) =>
        IF LirCompiled.expression.kind \in TraceExpressions
        THEN EmittedWithoutEntry
        ELSE /\ RecordedAsConstant \/ PushedOneEntry
             /\ ~(RecordedAsConstant /\ PushedOneEntry)

\* A call was compiled, and then the TraceCallEnds expression for its
\* return value: a push and the trace instruction were emitted, and the
\* stack is what it was.
C6_Witness ==
    /\ lirPhase = "body"
    /\ lirIndex > 1
    /\ LirCompiled.expression.kind = "TraceCallEnds"
    /\ lirFunction.body[lirIndex - 1].expression.kind = "Call"
    /\ LirCompiled.expression.return_value = lirFunction.body[lirIndex - 1].id
    /\ Len(lirContext.instructions) = Len(lirBefore.instructions) + 2
    /\ lirContext.stack = lirBefore.stack

(***************************************************************************)
(* C7.  Tail calls.                                                        *)
(***************************************************************************)
\* The entries of the frame below the return value: the captured values,
\* the parameters, the responsible parameter, and one local for every
\* expression before the last that is neither a constant nor a trace
\* expression.
EntriesBelowReturnValue ==
    Len(lirFunction.captured) + Len(lirFunction.parameters) + 1
        + Cardinality({i \in 1..(Len(lirFunction.body) - 1) :
              /\ lirFunction.body[i].id \notin DOMAIN lirContext.constants
              /\ lirFunction.body[i].expression.kind \notin TraceExpressions})

LirLastInstruction == lirContext.instructions[Len(lirContext.instructions)]
LirLastExpression == lirFunction.body[Len(lirFunction.body)].expression

\* C7: the instructions of a function end in TailCall, with no Return,
\* exactly when the last expression of the body, its return value, is a
\* call; num_locals_to_pop is then the number of entries below the result
\* of the call.  Otherwise they end in PopMultipleBelowTop and Return, and
\* PopMultipleBelowTop removes that same number of entries.
C7_TailCall ==
    lirPhase = "done" =>
        /\ LirLastInstruction.kind = "TailCall" <=> LirLastExpression.kind = "Call"
        /\ LirLastInstruction.kind = "TailCall" =>
              /\ \A i \in DOMAIN lirContext.instructions :
                    lirContext.instructions[i].kind # "Return"
              /\ LirLastInstruction.num_args = Len(LirLastExpression.arguments)
              /\ LirLastInstruction.num_locals_to_pop = EntriesBelowReturnValue
        /\ LirLastInstruction.kind # "TailCall" =>
              /\ LirLastInstruction.kind = "Return"
              /\ lirContext.instructions[Len(lirContext.instructions) - 1].kind
                    = "PopMultipleBelowTop"
              /\ lirContext.instructions[Len(lirContext.instructions) - 1].n
                    = EntriesBelowReturnValue

\* A function with a captured value and a parameter whose body is a local,
\* a constant and a call: the tail call pops four entries.
C7_Witness ==
    /\ lirPhase = "done"
    /\ lirFunction.captured # <<>>
    /\ Len(lirFunction.body) = 3
    /\ lirFunction.body[1].id \notin DOMAIN lirContext.constants
    /\ lirFunction.body[2].id \in DOMAIN lirContext.constants
    /\ LirLastInstruction.kind = "TailCall"
    /\ LirLastInstruction.num_locals_to_pop = 4

(***************************************************************************)
(* Heaps and handles.  A heap h is [objects, handle_refcounts]; the table  *)
(* is a function whose domain is the set of its keys.  The memory is one   *)
(* address space: hpData gives the header and the content of an address.   *)
(* An inline object is a pointer to a heap object or a handle.             *)
(***************************************************************************)
MaxAddress == 4
MaxHeapObjects == 2
MaxHandleId == 1
MaxHandleCount == 2
MaxRefcount == 4

Heaps == {"a", "b"}
HAddr == 1..MaxAddress
HandleIds == 1..MaxHandleId

Pointer(address) == [kind |-> "Pointer", to |-> address]
HandleObject(handle_id) == [kind |-> "Handle", to |-> handle_id]

NoData == [kind |-> "None", value |-> "", captured |-> <<>>]
TextData(value) == [kind |-> "Text", value |-> value, captured |-> <<>>]
ClosureData(caps) == [kind |-> "Closure", value |-> "", captured |-> caps]

EmptyHeap == [objects |-> {}, handle_refcounts |-> <<>>]

\* The mapping of a clone: its pairs (object, clone) and how it compares keys.
NoMapping == [by_value |-> FALSE, pairs |-> {}]

\* The count the table holds for a handle ID, 0 when it has no entry.
RefcountOf(table, handle_id) ==
    IF handle_id \in DOMAIN table THEN table[handle_id] ELSE 0

\* Heap::notify_handle_created: entry(handle_id).or_default() += 1.
notify_handle_created(h, handle_id) ==
    [h EXCEPT !.handle_refcounts =
        [i \in DOMAIN @ \cup {handle_id} |->
            IF i = handle_id THEN RefcountOf(@, handle_id) + 1 ELSE @[i]]]

\* The or_insert_with of dup_handle_by and drop_handle panics.
handle_is_missing(h, handle_id) == handle_id \notin DOMAIN h.handle_refcounts

\* Heap::dup_handle_by, for a handle ID that has an entry.
dup_handle_by(h, handle_id, amount) ==
    [h EXCEPT !.handle_refcounts[handle_id] = @ + amount]

\* A drop_handle that keeps the entry when it reaches zero.
drop_handle_keeps_entry(h, handle_id) ==
    [h EXCEPT !.handle_refcounts[handle_id] = @ - 1]

\* Heap::drop_handle, for a handle ID that has an entry: the entry is
\* removed when it reaches zero.
drop_handle(h, handle_id) ==
    IF h.handle_refcounts[handle_id] - 1 = 0
    THEN [h EXCEPT !.handle_refcounts =
            [i \in DOMAIN @ \ {handle_id} |-> @[i]]]
    ELSE [h EXCEPT !.handle_refcounts[handle_id] = @ - 1]

\* InlineHandle::create: the heap is notified, the handle is an inline word.
handle_create(h, handle_id) ==
    [heap |-> notify_handle_created(h, handle_id), object |-> HandleObject(handle_id)]

\* Heap::clear: every object of the object set is deallocated and the table
\* is emptied.
heap_clear(h) == [heap |-> EmptyHeap, deallocated |-> h.objects]

\* An adopt that leaves the objects in the other heap.
adopt_without_take(self, other) ==
    LET merged == [i \in DOMAIN self.handle_refcounts \cup DOMAIN other.handle_refcounts |->
                      RefcountOf(self.handle_refcounts, i) + RefcountOf(other.handle_refcounts, i)]
    IN  [self |-> [objects |-> self.objects \cup other.objects, handle_refcounts |-> merged],
         deallocated |-> heap_clear(other).deallocated]

\* Heap::adopt: the objects of the other heap are taken and inserted, its
\* refcounts are taken and added; the other heap, emptied, is dropped at the
\* end, which clears it.
adopt(self, other) ==
    LET merged == [i \in DOMAIN self.handle_refcounts \cup DOMAIN other.handle_refcounts |->
                      RefcountOf(self.handle_refcounts, i) + RefcountOf(other.handle_refcounts, i)]
        taken == EmptyHeap
    IN  [self |-> [objects |-> self.objects \cup other.objects, handle_refcounts |-> merged],
         deallocated |-> heap_clear(taken).deallocated]

\* The value of an object, as the derived equality of heap objects sees it:
\* its kind, its text and the values of what it captured.
RECURSIVE DeepValue(_, _), DeepValues(_, _, _)
DeepValue(data, x) ==
    IF x.kind = "Handle"
    THEN [kind |-> "Handle", value |-> "", id |-> x.to, captured |-> <<>>]
    ELSE [kind |-> data[x.to].kind, value |-> data[x.to].value, id |-> 0,
          captured |-> DeepValues(data, data[x.to].captured, 1)]
DeepValues(data, caps, i) ==
    IF i > Len(caps) THEN <<>>
    ELSE <<DeepValue(data, caps[i])>> \o DeepValues(data, caps, i + 1)

\* The equality of the keys of the address map: of the values when the map
\* compares heap objects by value, of the addresses otherwise.
KeyEquals(st, a, b) ==
    IF st.by_value THEN DeepValue(st.data, Pointer(a)) = DeepValue(st.data, Pointer(b))
    ELSE a = b

LowestFree(used) == CHOOSE a \in HAddr \ used : \A b \in HAddr \ used : a <= b

\* A clone of an inline object that copies the word as it is.
clone_inline_shallow(st, x) == [st |-> st, object |-> x]

\* The cloning state st is [heap, data, address_map, used, by_value]: the
\* heap cloned into, the memory, the mapping, the addresses in use.
RECURSIVE clone_to_heap_with_mapping(_, _), clone_content_to_heap_with_mapping(_, _, _, _), clone_inline(_, _)

\* HeapObject::clone_to_heap_with_mapping: the clone the map has for the
\* object, or a new object with the same header, entered into the map
\* before its content is cloned.
clone_to_heap_with_mapping(st, o) ==
    LET found == {p \in st.address_map : KeyEquals(st, p[1], o)} IN
    IF found # {} THEN [st |-> st, object |-> (CHOOSE p \in found : TRUE)[2]]
    ELSE LET clone == LowestFree(st.used)
             st1 == [st EXCEPT !.heap.objects = @ \cup {clone},
                               !.used = @ \cup {clone},
                               !.address_map = @ \cup {<<o, clone>>},
                               !.data[clone] = [st.data[o] EXCEPT !.captured = <<>>]]
         IN  clone_content_to_heap_with_mapping(st1, o, clone, 1)

\* HeapClosure::clone_content_to_heap_with_mapping: every captured inline
\* object is cloned, in order, and written into the clone.
clone_content_to_heap_with_mapping(st, o, clone, index) ==
    IF index > Len(st.data[o].captured) THEN [st |-> st, object |-> clone]
    ELSE LET r == clone_inline(st, st.data[o].captured[index])
         IN  clone_content_to_heap_with_mapping(
                 [r.st EXCEPT !.data[clone].captured = Append(@, r.object)],
                 o, clone, index + 1)

\* InlineObject::clone_to_heap_with_mapping: a handle notifies the heap and
\* is itself; a pointer is the pointer to the clone.
clone_inline(st, x) ==
    IF x.kind = "Handle"
    THEN [st |-> [st EXCEPT !.heap = notify_handle_created(@, x.to)], object |-> x]
    ELSE LET r == clone_to_heap_with_mapping(st, x.to)
         IN  [st |-> r.st, object |-> Pointer(r.object)]

RECURSIVE clone_objects(_, _, _)
clone_objects(st, order, i) ==
    IF i > Len(order) THEN st
    ELSE clone_objects(clone_to_heap_with_mapping(st, order[i]).st, order, i + 1)

\* Heap::clone: the new heap starts with a copy of the table, and every
\* object of the object set is cloned into it, in the order of the set.
heap_clone(self, data, used, order, by_value) ==
    clone_objects([heap |-> [objects |-> {}, handle_refcounts |-> self.handle_refcounts],
                   data |-> data, address_map |-> {}, used |-> used,
                   by_value |-> by_value],
                  order, 1)

AllObjects == UNION {hpHeaps[h].objects : h \in Heaps}

\* How many handle objects for the ID the objects of a heap capture.
CapturedHandles(h, handle_id) ==
    Cardinality({pi \in hpHeaps[h].objects \X (1..MaxCaptured) :
                    /\ pi[2] \in DOMAIN hpData[pi[1]].captured
                    /\ hpData[pi[1]].captured[pi[2]] = HandleObject(handle_id)})

\* The live handle objects of a heap: those on the stack of its fiber and
\* those its objects capture.
LiveHandles(h, handle_id) == hpStack[h][handle_id] + CapturedHandles(h, handle_id)

WithinMaxRefcount(h) ==
    \A i \in DOMAIN h.handle_refcounts : h.handle_refcounts[i] <= MaxRefcount

HandleInit ==
    /\ hpHeaps = [h \in Heaps |-> EmptyHeap]
    /\ hpData = [a \in HAddr |-> NoData]
    /\ hpStack = [h \in Heaps |-> [i \in HandleIds |-> 0]]
    /\ hpMapping = NoMapping
    /\ hpPanicked = FALSE
    /\ hpLast = [op |-> "none", heap |-> "a", other |-> "a", id |-> 0]

\* InlineHandle::create(heap, handle_id, ...): the fiber gets the handle.
HandleCreate ==
    \E h \in Heaps, handle_id \in HandleIds :
        /\ ~hpPanicked
        /\ hpStack[h][handle_id] < MaxHandleCount
        /\ RefcountOf(hpHeaps[h].handle_refcounts, handle_id) < MaxRefcount
        /\ hpHeaps' = [hpHeaps EXCEPT ![h] = handle_create(@, handle_id).heap]
        /\ hpStack' = [hpStack EXCEPT ![h][handle_id] = @ + 1]
        /\ hpLast' = [op |-> "create", heap |-> h, other |-> h, id |-> handle_id]
        /\ hpMapping' = NoMapping
        /\ UNCHANGED <<hpData, hpPanicked>>

\* A dup of a handle: dup_handle_by(handle_id, 1), which panics when the
\* table has no entry for the ID.
HandleDup ==
    \E h \in Heaps, handle_id \in HandleIds :
        /\ ~hpPanicked
        /\ hpLast' = [op |-> "dup", heap |-> h, other |-> h, id |-> handle_id]
        /\ IF handle_is_missing(hpHeaps[h], handle_id)
           THEN /\ hpPanicked' = TRUE
                /\ UNCHANGED <<hpHeaps, hpStack>>
           ELSE /\ hpStack[h][handle_id] > 0
                /\ hpStack[h][handle_id] < MaxHandleCount
                /\ hpHeaps[h].handle_refcounts[handle_id] < MaxRefcount
                /\ hpHeaps' = [hpHeaps EXCEPT ![h] = dup_handle_by(@, handle_id, 1)]
                /\ hpStack' = [hpStack EXCEPT ![h][handle_id] = @ + 1]
                /\ UNCHANGED hpPanicked
        /\ hpMapping' = NoMapping
        /\ UNCHANGED hpData

\* A drop of a handle: drop_handle(handle_id), which panics when the table
\* has no entry for the ID.
HandleDrop ==
    \E h \in Heaps, handle_id \in HandleIds :
        /\ ~hpPanicked
        /\ hpLast' = [op |-> "drop", heap |-> h, other |-> h, id |-> handle_id]
        /\ IF handle_is_missing(hpHeaps[h], handle_id)
           THEN /\ hpPanicked' = TRUE
                /\ UNCHANGED <<hpHeaps, hpStack>>
           ELSE /\ hpStack[h][handle_id] > 0
                /\ hpHeaps' = [hpHeaps EXCEPT ![h] = drop_handle(@, handle_id)]
                /\ hpStack' = [hpStack EXCEPT ![h][handle_id] = @ - 1]
                /\ UNCHANGED hpPanicked
        /\ hpMapping' = NoMapping
        /\ UNCHANGED hpData

\* Text::create(heap, ..., value): a new object in the heap.
HeapTextCreate ==
    \E h \in Heaps, value \in {"x", "y"} :
        /\ ~hpPanicked
        /\ Cardinality(AllObjects) < MaxHeapObjects
        /\ LET a == LowestFree(AllObjects) IN
           /\ hpHeaps' = [hpHeaps EXCEPT ![h].objects = @ \cup {a}]
           /\ hpData' = [hpData EXCEPT ![a] = TextData(value)]
        /\ hpLast' = [op |-> "allocate", heap |-> h, other |-> h, id |-> 0]
        /\ hpMapping' = NoMapping
        /\ UNCHANGED <<hpStack, hpPanicked>>

\* HeapClosure::create(heap, captured, ...): the closure captures objects
\* of its heap and handles from the stack of the fiber.
HeapClosureCreate ==
    \E h \in Heaps :
      \E caps \in SeqUpTo({Pointer(a) : a \in hpHeaps[h].objects}
                          \cup {HandleObject(i) : i \in HandleIds}, MaxCaptured) :
        /\ ~hpPanicked
        /\ caps # <<>>
        /\ Cardinality(AllObjects) < MaxHeapObjects
        /\ \A i \in HandleIds : CountIn(caps, HandleObject(i)) <= hpStack[h][i]
        /\ LET a == LowestFree(AllObjects) IN
           /\ hpHeaps' = [hpHeaps EXCEPT ![h].objects = @ \cup {a}]
           /\ hpData' = [hpData EXCEPT ![a] = ClosureData(caps)]
        /\ hpStack' = [hpStack EXCEPT ![h] =
                          [i \in HandleIds |-> @[i] - CountIn(caps, HandleObject(i))]]
        /\ hpLast' = [op |-> "allocate", heap |-> h, other |-> h, id |-> 0]
        /\ hpMapping' = NoMapping
        /\ UNCHANGED hpPanicked

\* self.adopt(other): the fiber of self takes over what the fiber of other
\* had on its stack.
Adopt ==
    \E self \in Heaps, other \in Heaps :
        /\ ~hpPanicked
        /\ self # other
        /\ hpHeaps[other] # EmptyHeap
        /\ LET r == adopt(hpHeaps[self], hpHeaps[other]) IN
           /\ WithinMaxRefcount(r.self)
           /\ hpHeaps' = [hpHeaps EXCEPT ![self] = r.self, ![other] = EmptyHeap]
           /\ hpData' = [a \in HAddr |-> IF a \in r.deallocated THEN NoData ELSE hpData[a]]
        /\ hpStack' = [hpStack EXCEPT
                          ![self] = [i \in HandleIds |-> hpStack[self][i] + hpStack[other][i]],
                          ![other] = [i \in HandleIds |-> 0]]
        /\ hpLast' = [op |-> "adopt", heap |-> self, other |-> other, id |-> 0]
        /\ hpMapping' = NoMapping
        /\ UNCHANGED hpPanicked

\* The orders in which the objects of a set can be visited.
Orders(S) == {order \in [1..Cardinality(S) -> S] : Range(order) = S}

\* self.clone(): the new heap takes the place of an empty one; its fiber
\* gets a copy of the stack.
Clone ==
    \E self \in Heaps, other \in Heaps :
        /\ ~hpPanicked
        /\ self # other
        /\ hpHeaps[self].objects # {}
        /\ hpHeaps[other] = EmptyHeap
        /\ \A i \in HandleIds : hpStack[other][i] = 0
        /\ Cardinality(AllObjects) + Cardinality(hpHeaps[self].objects) <= MaxAddress
        /\ \E order \in Orders(hpHeaps[self].objects), by_value \in BOOLEAN :
              LET st == heap_clone(hpHeaps[self], hpData, AllObjects, order, by_value) IN
              /\ WithinMaxRefcount(st.heap)
              /\ hpHeaps' = [hpHeaps EXCEPT ![other] = st.heap]
              /\ hpData' = st.data
              /\ hpMapping' = [by_value |-> by_value, pairs |-> st.address_map]
        /\ hpStack' = [hpStack EXCEPT ![other] = hpStack[self]]
        /\ hpLast' = [op |-> "clone", heap |-> self, other |-> other, id |-> 0]
        /\ UNCHANGED hpPanicked

\* heap.clear(), when the fiber that owns the heap is gone.
HeapClear ==
    \E h \in Heaps :
        /\ ~hpPanicked
        /\ hpHeaps[h] # EmptyHeap
        /\ LET r == heap_clear(hpHeaps[h]) IN
           /\ hpHeaps' = [hpHeaps EXCEPT ![h] = r.heap]
           /\ hpData' = [a \in HAddr |-> IF a \in r.deallocated THEN NoData ELSE hpData[a]]
        /\ hpStack' = [hpStack EXCEPT ![h] = [i \in HandleIds |-> 0]]
        /\ hpLast' = [op |-> "clear", heap |-> h, other |-> h, id |-> 0]
        /\ hpMapping' = NoMapping
        /\ UNCHANGED hpPanicked

InitHandle == HandleInit /\ IdleExcept("handles")
NextHandle ==
    \/ HandleCreate /\ FrameExcept("handles")
    \/ HandleDup /\ FrameExcept("handles")
    \/ HandleDrop /\ FrameExcept("handles")
    \/ HeapTextCreate /\ FrameExcept("handles")
    \/ HeapClosureCreate /\ FrameExcept("handles")
    \/ Adopt /\ FrameExcept("handles")
    \/ Clone /\ FrameExcept("handles")
    \/ HeapClear /\ FrameExcept("handles")
SpecHandle == InitHandle /\ [][NextHandle]_vars

(***************************************************************************)
(* C12.  Heap::adopt.                                                      *)
(***************************************************************************)
\* What a step that is self.adopt(other) does.
AdoptStep ==
    hpLast'.op = "adopt" =>
        LET self == hpLast'.heap
            other == hpLast'.other
        IN  /\ hpHeaps'[self].objects = hpHeaps[self].objects \cup hpHeaps[other].objects
            /\ \A i \in HandleIds :
                  RefcountOf(hpHeaps'[self].handle_refcounts, i)
                    = RefcountOf(hpHeaps[self].handle_refcounts, i)
                      + RefcountOf(hpHeaps[other].handle_refcounts, i)
            /\ \A o \in hpHeaps[self].objects \cup hpHeaps[other].objects :
                  hpData'[o] = hpData[o] /\ hpData'[o] # NoData
            /\ hpHeaps'[other] = EmptyHeap

\* C12: after a.adopt(b), heap a holds the union of the objects of both
\* heaps and, for every handle ID, the sum of the refcounts both heaps held
\* for it; no object is deallocated, also not by the drop of the emptied b.
C12_Adopt == [][AdoptStep]_vars

\* A heap adopted another one: it now holds objects of both and a refcount
\* that is the sum of two nonzero refcounts.
C12_Witness ==
    /\ hpLast.op = "adopt"
    /\ Cardinality(hpHeaps[hpLast.heap].objects) >= 2
    /\ hpStack[hpLast.heap][1] > MaxHandleCount
    /\ RefcountOf(hpHeaps[hpLast.heap].handle_refcounts, 1) = hpStack[hpLast.heap][1]

(***************************************************************************)
(* C13.  Heap::clone.                                                      *)
(***************************************************************************)
\* The clones the mapping has for an object.
ClonesOf(o) ==
    {p[2] : p \in {q \in hpMapping.pairs :
                      IF hpMapping.by_value
                      THEN DeepValue(hpData, Pointer(q[1])) = DeepValue(hpData, Pointer(o))
                      ELSE q[1] = o}}

CloneOf(o) == CHOOSE c \in ClonesOf(o) : TRUE

\* C13: after Heap::clone, every object of the original heap is mapped to
\* exactly one object of the new heap, with equal content, and every pointer
\* inside a clone points to the clone of what the original points to, which
\* is an object of the new heap and not of the original heap.
C13_Clone ==
    hpLast.op = "clone" =>
        LET original == hpHeaps[hpLast.heap].objects
            cloned == hpHeaps[hpLast.other].objects
        IN  \A o \in original :
                /\ Cardinality(ClonesOf(o)) = 1
                /\ CloneOf(o) \in cloned
                /\ CloneOf(o) \notin original
                /\ DeepValue(hpData, Pointer(CloneOf(o))) = DeepValue(hpData, Pointer(o))
                /\ Len(hpData[CloneOf(o)].captured) = Len(hpData[o].captured)
                /\ \A i \in DOMAIN hpData[o].captured :
                      LET x == hpData[o].captured[i]
                          y == hpData[CloneOf(o)].captured[i]
                      IN  IF x.kind = "Pointer"
                          THEN /\ y = Pointer(CloneOf(x.to))
                               /\ y.to \in cloned
                               /\ y.to \notin original
                          ELSE y = x

\* A heap with a closure that captures another object of the heap was cloned.
C13_Witness ==
    /\ hpLast.op = "clone"
    /\ Cardinality(hpMapping.pairs) >= 2
    /\ \E o \in hpHeaps[hpLast.heap].objects :
          \E i \in DOMAIN hpData[o].captured : hpData[o].captured[i].kind = "Pointer"

(***************************************************************************)
(* C18.  The handle refcount table.                                        *)
(***************************************************************************)
\* The table holds the number of live handle objects, and no zero.
HandleTableCountsLive ==
    \A h \in Heaps, i \in HandleIds :
        /\ RefcountOf(hpHeaps[h].handle_refcounts, i) = LiveHandles(h, i)
        /\ i \in DOMAIN hpHeaps[h].handle_refcounts => hpHeaps[h].handle_refcounts[i] > 0

\* What a create, a dup and a drop of a handle do to the table.
HandleStep ==
    LET h == hpLast'.heap
        i == hpLast'.id
        before == RefcountOf(hpHeaps[h].handle_refcounts, i)
        after == RefcountOf(hpHeaps'[h].handle_refcounts, i)
    IN  /\ hpLast'.op = "create" => after = before + 1 /\ ~hpPanicked'
        /\ hpLast'.op \in {"dup", "drop"} =>
              IF handle_is_missing(hpHeaps[h], i)
              THEN hpPanicked' /\ hpHeaps' = hpHeaps
              ELSE /\ ~hpPanicked'
                   /\ after = IF hpLast'.op = "dup" THEN before + 1 ELSE before - 1
                   /\ i \in DOMAIN hpHeaps'[h].handle_refcounts <=> after > 0

\* C18: the handle refcount table of a heap holds, for each handle ID, the
\* number of live handle objects of that heap: a create adds one, a drop
\* subtracts one, the entry is removed when it reaches zero, and a dup or a
\* drop for an ID without an entry is an error.
C18_HandleCounts == []HandleTableCountsLive /\ [][HandleStep]_vars

\* The same without what the claim says about heaps that Heap::clone made:
\* the steps, and the table of a heap as long as no heap was cloned.
HandleCountsOfSteps == [][HandleStep]_vars

\* A heap whose closure captures a handle was cloned.
C18_Witness ==
    /\ hpLast.op = "clone"
    /\ CapturedHandles(hpLast.heap, 1) > 0
    /\ CapturedHandles(hpLast.other, 1) > 0

(***************************************************************************)
(* AST to HIR.  An AST node is [kind, name, is_public, parameters, body];  *)
(* its AST ID is its path, a sequence of numbers: the path of the i-th AST *)
(* of a body is the path of the parent with i appended, the ID of the name *)
(* of a node is its path with 0 appended, the ID of its k-th parameter is  *)
(* that with k appended.  A HIR ID is a sequence of keys.  Maps are sets   *)
(* of pairs with one pair per key.                                         *)
(***************************************************************************)
MaxTopLevel == 3
MaxDisambiguator == 30

Names == {"a", "b"}

IntAst == [kind |-> "Int", name |-> "", is_public |-> FALSE, parameters |-> <<>>, body |-> <<>>]
Identifier(name) ==
    [kind |-> "Identifier", name |-> name, is_public |-> FALSE, parameters |-> <<>>, body |-> <<>>]
\* An assignment with AssignmentBody::Body, whose pattern is the name.
Assignment(is_public, name, body) ==
    [kind |-> "Assignment", name |-> name, is_public |-> is_public, parameters |-> <<>>, body |-> body]
\* An assignment with AssignmentBody::Function.
FunctionAssignment(is_public, name, parameters, body) ==
    [kind |-> "FunctionAssignment", name |-> name, is_public |-> is_public,
     parameters |-> parameters, body |-> body]

NoAstId == <<>>
NameId(path) == Append(path, 0)
ParameterId(path, k) == path \o <<0, k>>

Has(map, k) == \E p \in map : p[1] = k
Get(map, k) == (CHOOSE p \in map : p[1] = k)[2]
Put(map, k, v) == {p \in map : p[1] # k} \cup {<<k, v>>}

\* IdKey: a name ("" for a positional key) and a disambiguator.
IdKey(name, disambiguator) == [name |-> name, disambiguator |-> disambiguator]
child(id, key) == Append(id, key)

uppercase_first_letter(name) ==
    CASE name = "a" -> "A"
      [] name = "b" -> "B"
      [] OTHER -> name

Symbol(symbol) == [kind |-> "Symbol", symbol |-> symbol]
IntHir == [kind |-> "Int"]
ReferenceHir(id) == [kind |-> "Reference", id |-> id]
ErrorHir(error, name) == [kind |-> "Error", error |-> error, name |-> name]
Destructure(e, pattern) == [kind |-> "Destructure", expression |-> e, pattern |-> pattern]
PatternIdentifierReference(identifier_id) ==
    [kind |-> "PatternIdentifierReference", identifier_id |-> identifier_id]
FunctionHir(parameters, body) == [kind |-> "Function", parameters |-> parameters, body |-> body]
StructHir(fields) == [kind |-> "Struct", fields |-> fields]

\* Context::create_next_id: the first child of the prefix, in the order of
\* the disambiguators, that the ID mapping does not hold.
create_next_id(ctx, key) ==
    LET taken(d) == Has(ctx.id_mapping, child(ctx.id_prefix, IdKey(key, d)))
        first == CHOOSE d \in 0..MaxDisambiguator :
                    ~taken(d) /\ \A e \in 0..(d - 1) : taken(e)
    IN  child(ctx.id_prefix, IdKey(key, first))

\* ... and its entry.insert(ast_id).
with_id(ctx, id, ast_id) == [ctx EXCEPT !.id_mapping = @ \cup {<<id, ast_id>>}]

\* Context::push_with_existing_id
push_with_existing_id(ctx, id, expr, identifier) ==
    [ctx EXCEPT !.body = Append(@, [id |-> id, expression |-> expr, identifier |-> identifier]),
                !.identifiers = IF identifier # "" THEN Put(@, identifier, id) ELSE @,
                !.result = id]

\* Context::push
push(ctx, ast_id, expr, identifier) ==
    LET id == create_next_id(ctx, identifier)
    IN  push_with_existing_id(with_id(ctx, id, ast_id), id, expr, identifier)

\* Context::push_error
push_error(ctx, ast_id, error, name) == push(ctx, ast_id, ErrorHir(error, name), "")

\* Context::start_scope / start_non_top_level; the reset state is the
\* context before.
start_scope(ctx) == [ctx EXCEPT !.body = <<>>, !.is_top_level = FALSE]

\* An end_scope that keeps the identifiers of the scope.
end_scope_keeps_identifiers(ctx, reset_state) ==
    [ctx EXCEPT !.body = reset_state.body,
                !.id_prefix = reset_state.id_prefix,
                !.is_top_level = reset_state.is_top_level]

\* Context::end_scope; the inner body is the body of ctx.
end_scope(ctx, reset_state) ==
    [ctx EXCEPT !.body = reset_state.body,
                !.id_prefix = reset_state.id_prefix,
                !.identifiers = reset_state.identifiers,
                !.is_top_level = reset_state.is_top_level]

\* self.public_identifiers.insert(name, id)
insert_public(public_identifiers, name, id) == Put(public_identifiers, name, id)

\* A public branch that exports below the top level, too.
publish_everywhere(ctx, name, id) ==
    [ctx EXCEPT !.public_identifiers = insert_public(@, name, id)]

\* compile_single, AstKind::Assignment, the is_public branch.
publish(ctx, name, id) ==
    IF ctx.is_top_level
    THEN LET c1 == IF Has(ctx.public_identifiers, name)
                   THEN push_error(ctx, NoAstId, "PublicAssignmentWithSameName", name)
                   ELSE ctx
         IN  [c1 EXCEPT !.public_identifiers = insert_public(@, name, id)]
    ELSE push_error(ctx, NoAstId, "PublicAssignmentInNotTopLevel", "")

RECURSIVE compile(_, _, _, _), compile_single(_, _, _), hir_compile_function(_, _, _, _), declare_parameters(_, _, _, _)

\* The loop over the parameters in compile_function.
declare_parameters(ctx, parameters, path, k) ==
    IF k > Len(parameters) THEN ctx
    ELSE LET id == create_next_id(ctx, parameters[k])
         IN  declare_parameters(
                 [with_id(ctx, id, ParameterId(path, k)) EXCEPT
                     !.identifiers = Put(@, parameters[k], id)],
                 parameters, path, k + 1)

\* Context::compile_function
hir_compile_function(ctx, path, function, identifier) ==
    LET scope == start_scope(ctx)
        function_id == create_next_id(scope, identifier)
        inner == compile(declare_parameters(
                            [with_id(scope, function_id, path) EXCEPT !.id_prefix = function_id],
                            function.parameters, path, 1),
                         function.body, path, 1)
    IN  push_with_existing_id(
            end_scope(inner, ctx), function_id,
            FunctionHir([k \in DOMAIN function.parameters |->
                            child(function_id, IdKey(function.parameters[k], 0))],
                        inner.body),
            "")

\* Context::compile: the ASTs from the i-th on; path is that of the parent.
compile(ctx, asts, path, i) ==
    IF Len(asts) = 0 THEN push(ctx, NoAstId, Symbol("Nothing"), "")
    ELSE IF i > Len(asts) THEN ctx
    ELSE compile(compile_single(ctx, asts[i], Append(path, i)), asts, path, i + 1)

\* Context::compile_single
compile_single(ctx, ast, path) ==
    CASE ast.kind = "Int" -> push(ctx, path, IntHir, "")
      [] ast.kind = "Identifier" ->
            IF Has(ctx.identifiers, ast.name)
            THEN push(ctx, path, ReferenceHir(Get(ctx.identifiers, ast.name)), "")
            ELSE push_error(ctx, NameId(path), "UnknownReference", ast.name)
      [] ast.kind = "FunctionAssignment" ->
            LET c1 == hir_compile_function(ctx, path, ast, ast.name)
                c2 == push(c1, NameId(path), ReferenceHir(c1.result), ast.name)
                c3 == IF ast.is_public THEN publish(c2, ast.name, c2.result) ELSE c2
            IN  [c3 EXCEPT !.result = c1.result]
      [] ast.kind = "Assignment" ->
            LET c1 == compile([ctx EXCEPT !.is_top_level = FALSE], ast.body, path, 1)
                c2 == push([c1 EXCEPT !.is_top_level = ctx.is_top_level], NoAstId,
                           Destructure(c1.result, "NewIdentifier"), "")
                c3 == push(c2, NameId(path), PatternIdentifierReference(0), ast.name)
                c4 == push(c3, path, Symbol("Nothing"), "")
                c5 == IF ast.is_public THEN publish(c4, ast.name, c3.result) ELSE c4
            IN  [c5 EXCEPT !.result = c2.result]

RECURSIVE push_exports(_, _, _, _)
\* The loop of generate_exports_struct over the public identifiers, in the
\* order in which the map gives them.
push_exports(ctx, names, i, exports) ==
    IF i > Len(names) THEN push(ctx, NoAstId, StructHir(exports), "")
    ELSE LET c1 == push(ctx, NoAstId, Symbol(uppercase_first_letter(names[i])), "")
         IN  push_exports(c1, names, i + 1,
                          Put(exports, c1.result, Get(ctx.public_identifiers, names[i])))

\* Context::generate_exports_struct
generate_exports_struct(ctx, names) == push_exports(ctx, names, 1, {})

\* Context::generate_use: the use function, with the identifier use.
generate_use(ctx) ==
    LET scope == start_scope(ctx)
        use_id == create_next_id(scope, "use")
        inner == push([with_id(scope, use_id, NoAstId) EXCEPT !.id_prefix = use_id],
                      NoAstId, [kind |-> "UseModule"], "importedModule")
    IN  push_with_existing_id(end_scope(inner, ctx), use_id,
                              FunctionHir(<<child(use_id, IdKey("relativePath", 0))>>, inner.body),
                              "use")

\* compile_top_level, up to the call of compile.
initial_context ==
    generate_use([id_mapping |-> {}, public_identifiers |-> {}, body |-> <<>>,
                  id_prefix |-> <<>>, identifiers |-> {}, is_top_level |-> TRUE,
                  result |-> <<>>])

\* The ASTs of the bodies of the model's assignments and functions.
InnerAsts ==
    {IntAst} \cup {Identifier(n) : n \in Names}
    \cup {Assignment(p, n, <<IntAst>>) : p \in BOOLEAN, n \in Names}

\* The ASTs of the top level: leaves, assignments of a leaf or of a nested
\* assignment, and named functions with at most one parameter.
TopLevelAsts ==
    {IntAst} \cup {Identifier(n) : n \in Names}
    \cup {Assignment(p, n, <<x>>) : p \in BOOLEAN, n \in Names, x \in InnerAsts}
    \cup {FunctionAssignment(p, "a", parameters, <<x>>) :
            p \in BOOLEAN, parameters \in {<<>>, <<"b">>},
            x \in {Identifier("a"), Identifier("b"), Assignment(TRUE, "b", <<IntAst>>)}}

HirInit ==
    /\ hirAsts = <<>>
    /\ hirContext = initial_context
    /\ hirPhase = "compile"

\* One round of the loop of Context::compile over the ASTs of the module.
CompileSingle ==
    /\ hirPhase = "compile"
    /\ Len(hirAsts) < MaxTopLevel
    /\ \E ast \in TopLevelAsts :
          /\ hirAsts' = Append(hirAsts, ast)
          /\ hirContext' = compile_single(hirContext, ast, <<Len(hirAsts) + 1>>)
    /\ UNCHANGED hirPhase

\* The end of compile_top_level: compile returns (after pushing Nothing for
\* a module without ASTs) and generate_exports_struct runs; the map of the
\* public identifiers gives them in some order.
GenerateExportsStruct ==
    /\ hirPhase = "compile"
    /\ LET ctx == IF hirAsts = <<>> THEN compile(hirContext, <<>>, <<>>, 1) ELSE hirContext
           public == {p[1] : p \in ctx.public_identifiers}
       IN  \E names \in [1..Cardinality(public) -> public] :
              /\ Range(names) = public
              /\ hirContext' = generate_exports_struct(ctx, names)
    /\ hirPhase' = "done"
    /\ UNCHANGED hirAsts

InitHir == HirInit /\ IdleExcept("hir")
NextHir ==
    \/ CompileSingle /\ FrameExcept("hir")
    \/ GenerateExportsStruct /\ FrameExcept("hir")
SpecHir == InitHir /\ [][NextHir]_vars

\* Every entry of a body and of the bodies of its functions.
RECURSIVE AllEntries(_, _)
AllEntries(body, i) ==
    IF i > Len(body) THEN <<>>
    ELSE (IF body[i].expression.kind = "Function"
          THEN AllEntries(body[i].expression.body, 1) ELSE <<>>)
         \o <<body[i]>> \o AllEntries(body, i + 1)

\* The HIR IDs that the ID mapping gives the AST ID.
HirIdsOf(ast_id) == {p[1] : p \in {q \in hirContext.id_mapping : q[2] = ast_id}}

\* The expression with the HIR ID.
ExpressionOf(id) ==
    LET entries == AllEntries(hirContext.body, 1)
    IN  entries[CHOOSE i \in DOMAIN entries : entries[i].id = id].expression

IsDefined(id) ==
    LET entries == AllEntries(hirContext.body, 1)
    IN  \E i \in DOMAIN entries : entries[i].id = id

\* The symbols that the body of the module defines under the HIR ID.
SymbolsOf(id) ==
    {hirContext.body[i].expression.symbol :
        i \in {j \in DOMAIN hirContext.body :
                  /\ hirContext.body[j].id = id
                  /\ hirContext.body[j].expression.kind = "Symbol"}}

(***************************************************************************)
(* C14.  Identifiers and lexical scopes.                                   *)
(***************************************************************************)
\* The uses and the bindings of names in the ASTs, in the order of the
\* program: an identifier is a use; an assignment binds its name once its
\* body has been lowered; a function binds its parameters inside its scope.
\* The scope of an event is the path of the function around it.
RECURSIVE Events(_, _, _, _)
Events(asts, path, i, scope) ==
    IF i > Len(asts) THEN <<>>
    ELSE LET ast == asts[i]
             p == Append(path, i)
             this ==
               CASE ast.kind = "Int" -> <<>>
                 [] ast.kind = "Identifier" ->
                      <<[type |-> "use", name |-> ast.name, id |-> p, scope |-> scope]>>
                 [] ast.kind = "Assignment" ->
                      Events(ast.body, p, 1, scope)
                      \o <<[type |-> "bind", name |-> ast.name, id |-> NameId(p), scope |-> scope]>>
                 [] ast.kind = "FunctionAssignment" ->
                      [k \in DOMAIN ast.parameters |->
                          [type |-> "bind", name |-> ast.parameters[k],
                           id |-> ParameterId(p, k), scope |-> p]]
                      \o Events(ast.body, p, 1, p)
                      \o <<[type |-> "bind", name |-> ast.name, id |-> NameId(p), scope |-> scope]>>
         IN  this \o Events(asts, path, i + 1, scope)

IsPrefix(s, t) == Len(s) <= Len(t) /\ SubSeq(t, 1, Len(s)) = s

\* The bindings of the name of the k-th event that are visible there: made
\* before it, in a scope around it.
VisibleBindings(events, k) ==
    {j \in 1..(k - 1) : /\ events[j].type = "bind"
                        /\ events[j].name = events[k].name
                        /\ IsPrefix(events[j].scope, events[k].scope)}

Max(S) == CHOOSE x \in S : \A y \in S : y <= x

\* The k-th event, a use, is lowered to a reference to the last visible
\* binding of its name, or to the error when there is none.
ResolvedAsVisible(events, k) ==
    LET bindings == VisibleBindings(events, k)
        references == HirIdsOf(events[k].id)
        errors == HirIdsOf(NameId(events[k].id))
    IN  IF bindings = {}
        THEN /\ references = {}
             /\ Cardinality(errors) = 1
             /\ \A e \in errors :
                   /\ IsDefined(e)
                   /\ ExpressionOf(e).kind = "Error"
                   /\ ExpressionOf(e).error = "UnknownReference"
                   /\ ExpressionOf(e).name = events[k].name
        ELSE /\ errors = {}
             /\ Cardinality(references) = 1
             /\ \A r \in references :
                   /\ IsDefined(r)
                   /\ ExpressionOf(r).kind = "Reference"
                   /\ HirIdsOf(events[Max(bindings)].id) = {ExpressionOf(r).id}

\* C14: every identifier of the module is lowered, also those that follow an
\* unknown one: to a Reference to the binding of its name that is visible in
\* the lexical scope at that point, and to Error(UnknownReference) when no
\* binding is visible, as for a name bound only in a scope that has ended.
C14_Identifiers ==
    LET events == Events(hirAsts, <<>>, 1, <<>>)
    IN  \A k \in DOMAIN events : events[k].type = "use" => ResolvedAsVisible(events, k)

\* A module whose function bound b, as a parameter or in its body, and
\* that uses b after the function: an unknown reference, and then a
\* reference to a that is resolved.
C14_Witness ==
    /\ Len(hirAsts) = 3
    /\ hirAsts[1].kind = "FunctionAssignment"
    /\ hirAsts[1].body[1].kind = "Assignment"
    /\ hirAsts[2] = Identifier("b")
    /\ hirAsts[3] = Identifier("a")
    /\ HirIdsOf(<<3>>) # {}
    /\ HirIdsOf(NameId(<<2>>)) # {}

(***************************************************************************)
(* C15, C16.  Public assignments and the exports struct.                   *)
(***************************************************************************)
\* The indices of the ASTs of the module that publicly assign the name.
PublicAssignmentsOf(name) ==
    {i \in DOMAIN hirAsts : /\ hirAsts[i].kind \in {"Assignment", "FunctionAssignment"}
                            /\ hirAsts[i].is_public
                            /\ hirAsts[i].name = name}

Min(S) == CHOOSE x \in S : \A y \in S : x <= y

\* The struct that ends the body of the module, once lowering is done.
ExportsStruct == hirContext.body[Len(hirContext.body)].expression

\* The values that the exports struct has under the symbol.
ExportedAs(symbol) ==
    {f[2] : f \in {g \in ExportsStruct.fields : SymbolsOf(g[1]) = {symbol}}}

\* The errors of the kind in the body of the module, by name.
ModuleErrors(error) ==
    {i \in DOMAIN hirContext.body :
        /\ hirContext.body[i].expression.kind = "Error"
        /\ hirContext.body[i].expression.error = error}

\* C15: a public assignment at the top level of a name that an earlier
\* one exported is rejected with Error(PublicAssignmentWithSameName), once
\* for every such assignment, and the exports of the module keep the earlier
\* definition of the name.
C15_DuplicatePublicName ==
    hirPhase = "done" =>
        \A name \in Names :
            LET assignments == PublicAssignmentsOf(name)
            IN  /\ Cardinality({i \in ModuleErrors("PublicAssignmentWithSameName") :
                                   hirContext.body[i].expression.name = name})
                     = IF assignments = {} THEN 0 ELSE Cardinality(assignments) - 1
                /\ assignments # {} =>
                      ExportedAs(uppercase_first_letter(name))
                        = HirIdsOf(NameId(<<Min(assignments)>>))

\* The part of it that is about the error.
DuplicatePublicNameIsReported ==
    hirPhase = "done" =>
        \A name \in Names :
            Cardinality({i \in ModuleErrors("PublicAssignmentWithSameName") :
                            hirContext.body[i].expression.name = name})
              = IF PublicAssignmentsOf(name) = {} THEN 0
                ELSE Cardinality(PublicAssignmentsOf(name)) - 1

\* The exports have the definition of the last public assignment of a name.
ExportsHaveTheLastDefinition ==
    hirPhase = "done" =>
        \A name \in Names :
            PublicAssignmentsOf(name) # {} =>
                ExportedAs(uppercase_first_letter(name))
                  = HirIdsOf(NameId(<<Max(PublicAssignmentsOf(name))>>))

\* A module that publicly assigns a at the top level twice was lowered.
C15_Witness ==
    /\ hirPhase = "done"
    /\ Cardinality(PublicAssignmentsOf("a")) = 2
    /\ ModuleErrors("PublicAssignmentWithSameName") # {}

\* C16: the last expression of the lowered module body is a struct with
\* exactly one field per name that is publicly assigned at the top level:
\* its key is a symbol, the name with an uppercase first letter, its value
\* the HIR ID of a public top-level definition of the name.  Names that are
\* not public, or public only below the top level, have no field.
C16_ExportsStruct ==
    hirPhase = "done" =>
        /\ ExportsStruct.kind = "Struct"
        /\ Cardinality(ExportsStruct.fields)
             = Cardinality({name \in Names : PublicAssignmentsOf(name) # {}})
        /\ \A f \in ExportsStruct.fields : Cardinality(SymbolsOf(f[1])) = 1
        /\ \A name \in Names :
              LET values == ExportedAs(uppercase_first_letter(name))
              IN  IF PublicAssignmentsOf(name) = {} THEN values = {}
                  ELSE /\ Cardinality(values) = 1
                       /\ values \subseteq
                            UNION {HirIdsOf(NameId(<<i>>)) : i \in PublicAssignmentsOf(name)}

\* A module with a public a, a private b and, inside a body, a public b
\* was lowered: a is exported and b is not.
C16_Witness ==
    /\ hirPhase = "done"
    /\ PublicAssignmentsOf("a") # {}
    /\ PublicAssignmentsOf("b") = {}
    /\ \E i \in DOMAIN hirAsts :
          /\ hirAsts[i].kind = "Assignment" /\ ~hirAsts[i].is_public /\ hirAsts[i].name = "b"
          /\ hirAsts[i].body[1].kind = "Assignment" /\ hirAsts[i].body[1].is_public
    /\ ExportedAs("A") # {}
    /\ ModuleErrors("PublicAssignmentInNotTopLevel") # {}

(***************************************************************************)
(* Tracers.  The heap of the fiber is [objects, count, dups, drops]: the   *)
(* allocated values, their reference counts, and how many dups and drops   *)
(* the tracer has made of each.  The values have no children.              *)
(***************************************************************************)
MaxValues == 2
MaxTraceEvents == 5
MaxCallDepth == 2

Values == 1..MaxValues
ExpressionIds == {1, 2}

\* value.dup(heap) by the tracer
tracer_dup(h, o) ==
    [h EXCEPT !.count[o] = @ + 1, !.dups[o] = @ + 1]

\* value.drop(heap) by the tracer: at zero the value is deallocated.
tracer_drop(h, o) ==
    [h EXCEPT !.count[o] = @ - 1, !.drops[o] = @ + 1,
              !.objects = IF h.count[o] = 1 THEN @ \ {o} ELSE @]

RECURSIVE dup_all(_, _, _), drop_all(_, _, _)
dup_all(h, values, i) ==
    IF i > Len(values) THEN h ELSE dup_all(tracer_dup(h, values[i]), values, i + 1)
drop_all(h, values, i) ==
    IF i > Len(values) THEN h ELSE drop_all(tracer_drop(h, values[i]), values, i + 1)

\* The values of a call: the callee and the arguments.
CallValues(call) == <<call.callee>> \o call.arguments

\* The values of a sequence of locals (pairs of an ID and a value).
LocalValues(locals) == [i \in DOMAIN locals |-> locals[i][2]]

\* StackFrame::drop: the call and every local are dropped.
frame_drop(h, frame) ==
    drop_all(drop_all(h, CallValues(frame.call), 1), LocalValues(frame.locals), 1)

RECURSIVE frames_drop(_, _, _)
frames_drop(h, frames, i) ==
    IF i > Len(frames) THEN h ELSE frames_drop(frame_drop(h, frames[i]), frames, i + 1)

\* DebugTracer::drop: the root locals and every frame are dropped.
debug_tracer_drop(h) ==
    frames_drop(drop_all(h, LocalValues(root_locals), 1), call_stack, 1)

\* The values of a set of pairs, in some order.
RECURSIVE ValuesOf(_)
ValuesOf(pairs) ==
    IF pairs = {} THEN <<>>
    ELSE LET p == CHOOSE q \in pairs : TRUE IN <<p[2]>> \o ValuesOf(pairs \ {p})

\* The end of an EvaluatedValuesTracer: its owner drops the values of the map.
evaluated_values_drop(h) == drop_all(h, ValuesOf(evaluated_values), 1)

\* An insert that drops the value that the map had for the ID.
insert_dropping_replaced(h, id) ==
    drop_all(h, ValuesOf({p \in evaluated_values : p[1] = id}), 1)

\* self.evaluated_values.insert(id, value): what it does to the heap.
insert_evaluated(h, id) == h

TraceInit ==
    /\ trKind \in {"evaluated", "debug"}
    /\ trHeap = [objects |-> Values, count |-> [o \in Values |-> 1],
                 dups |-> [o \in Values |-> 0], drops |-> [o \in Values |-> 0]]
    /\ evaluated_values = {}
    /\ root_locals = <<>>
    /\ call_stack = <<>>
    /\ trEvents = 0
    /\ trPhase = "running"

\* Tracer::value_evaluated(heap, expression, value)
ValueEvaluated ==
    \E id \in ExpressionIds, own_module \in BOOLEAN, value \in Values :
        /\ trPhase = "running"
        /\ trEvents < MaxTraceEvents
        /\ trEvents' = trEvents + 1
        /\ IF trKind = "evaluated"
           THEN /\ IF own_module
                   THEN /\ trHeap' = insert_evaluated(tracer_dup(trHeap, value), id)
                        /\ evaluated_values' = Put(evaluated_values, id, value)
                   ELSE UNCHANGED <<trHeap, evaluated_values>>
                /\ UNCHANGED <<root_locals, call_stack>>
           ELSE /\ trHeap' = tracer_dup(trHeap, value)
                /\ IF call_stack # <<>>
                   THEN /\ call_stack' = [call_stack EXCEPT ![Len(call_stack)].locals =
                                             Append(@, <<id, value>>)]
                        /\ UNCHANGED root_locals
                   ELSE /\ root_locals' = Append(root_locals, <<id, value>>)
                        /\ UNCHANGED call_stack
                /\ UNCHANGED evaluated_values
        /\ UNCHANGED <<trKind, trPhase>>

\* Tracer::call_started(heap, call_site, callee, arguments, responsible)
CallStarted ==
    \E callee \in Values, arguments \in SeqUpTo(Values, 1) :
        /\ trPhase = "running"
        /\ trEvents < MaxTraceEvents
        /\ trEvents' = trEvents + 1
        /\ IF trKind = "debug"
           THEN /\ Len(call_stack) < MaxCallDepth
                /\ trHeap' = dup_all(trHeap, CallValues([callee |-> callee, arguments |-> arguments]), 1)
                /\ call_stack' = Append(call_stack,
                                        [call |-> [callee |-> callee, arguments |-> arguments],
                                         locals |-> <<>>])
           ELSE UNCHANGED <<trHeap, call_stack>>
        /\ UNCHANGED <<trKind, evaluated_values, root_locals, trPhase>>

\* Tracer::call_ended(heap, return_value), for a call that has started.
CallEnded ==
    /\ trPhase = "running"
    /\ trEvents < MaxTraceEvents
    /\ trEvents' = trEvents + 1
    /\ IF trKind = "debug"
       THEN /\ call_stack # <<>>
            /\ trHeap' = frame_drop(trHeap, call_stack[Len(call_stack)])
            /\ call_stack' = SubSeq(call_stack, 1, Len(call_stack) - 1)
       ELSE UNCHANGED <<trHeap, call_stack>>
    /\ UNCHANGED <<trKind, evaluated_values, root_locals, trPhase>>

\* The fiber finishes and the VM drops the references it holds, one for
\* every value.
FiberFinished ==
    /\ trPhase = "running"
    /\ trHeap' = [trHeap EXCEPT
                    !.count = [o \in Values |-> @[o] - 1],
                    !.objects = {o \in @ : trHeap.count[o] > 1}]
    /\ trPhase' = "finished"
    /\ UNCHANGED <<trKind, evaluated_values, root_locals, call_stack, trEvents>>

\* The tracer is discarded and what it stores is released.
TracerReleased ==
    /\ trPhase = "finished"
    /\ IF trKind = "debug"
       THEN /\ trHeap' = debug_tracer_drop(trHeap)
            /\ root_locals' = <<>>
            /\ call_stack' = <<>>
            /\ UNCHANGED evaluated_values
       ELSE /\ trHeap' = evaluated_values_drop(trHeap)
            /\ evaluated_values' = {}
            /\ UNCHANGED <<root_locals, call_stack>>
    /\ trPhase' = "released"
    /\ UNCHANGED <<trKind, trEvents>>

InitTrace == TraceInit /\ IdleExcept("trace")
NextTrace ==
    \/ ValueEvaluated /\ FrameExcept("trace")
    \/ CallStarted /\ FrameExcept("trace")
    \/ CallEnded /\ FrameExcept("trace")
    \/ FiberFinished /\ FrameExcept("trace")
    \/ TracerReleased /\ FrameExcept("trace")
SpecTrace == InitTrace /\ [][NextTrace]_vars

(***************************************************************************)
(* C17.  The references of a tracer.                                       *)
(***************************************************************************)
\* How often the tracer stores the value.
StoredIn(values, o) == Cardinality({i \in DOMAIN values : values[i] = o})

RECURSIVE StoredInFrames(_, _, _)
StoredInFrames(frames, i, o) ==
    IF i > Len(frames) THEN 0
    ELSE StoredIn(CallValues(frames[i].call), o)
         + StoredIn(LocalValues(frames[i].locals), o)
         + StoredInFrames(frames, i + 1, o)

Stored(o) ==
    Cardinality({p \in evaluated_values : p[2] = o})
    + StoredIn(LocalValues(root_locals), o)
    + StoredInFrames(call_stack, 1, o)

\* The references the tracer has taken and not released are those of the
\* values it stores.
TracerHoldsWhatItStores ==
    \A o \in Values : trHeap.dups[o] - trHeap.drops[o] = Stored(o)

\* C17: every dup a tracer makes when it stores a value is matched by one
\* drop when the stored value is replaced, when its call frame ends, or when
\* the tracer is discarded; once the fiber has finished and the tracer is
\* released, no value is allocated any more.
C17_TracerReferences ==
    /\ TracerHoldsWhatItStores
    /\ trPhase = "released" => trHeap.objects = {}

\* The same for the DebugTracer alone.
DebugTracerReferences == trKind = "debug" => C17_TracerReferences

\* An EvaluatedValuesTracer stored a value for an ID for which it had
\* stored a value before.
C17_Witness ==
    /\ trKind = "evaluated"
    /\ trHeap.dups[1] = 1 /\ trHeap.dups[2] = 1
    /\ evaluated_values = {<<1, 2>>}
    /\ trPhase = "finished"

(***************************************************************************)
(* C19.  optimize_expression leaves its loop only at a fixpoint.           *)
(***************************************************************************)
\* Every entry of the loop that optimize_expression(visible, expr) makes:
\* its own and, for a function, those of the expressions of its body.  An
\* entry is the expression the loop starts with and what is visible then.
LoopEntries(visible, expr) ==
    {[visible |-> visible, expression |-> optimize_function(visible, expr).expression]}
    \cup IF expr.kind # "Function" THEN {}
         ELSE {[visible |-> optimize_body_from(SubSeq(expr.body, 1, k - 1),
                                               VisibleInside(visible, expr), 0).visible,
                expression |-> expr.body[k].expression] : k \in DOMAIN expr.body}

\* The loop entries of the iteration of optimize_body that is about to run.
PendingLoopEntries ==
    IF optPhase = "body" /\ optIndex < Len(optBody)
    THEN LoopEntries(optVisible, optBody[optIndex + 1].expression)
    ELSE {}

\* One more round of the passes of the loop.
OneMoreRound(visible, expr) == follow_references(visible, expr)

ShakeInit ==
    /\ optOriginal \in Bodies
    /\ optBody = optOriginal
    /\ optIndex = 0
    /\ optVisible = <<>>
    /\ optPhase = "mir"

\* Mir::tree_shake.
TreeShake ==
    /\ optPhase = "mir"
    /\ optBody' = tree_shake(optBody, {}).body
    /\ optPhase' = "shaken"
    /\ UNCHANGED <<optOriginal, optIndex, optVisible>>

InitShake == ShakeInit /\ IdleExcept("opt")
NextShake == TreeShake /\ FrameExcept("opt")
SpecShake == InitShake /\ [][NextShake]_vars

(***************************************************************************)
(* C20.  Tree shaking removes exactly the expressions that are not needed. *)
(***************************************************************************)
\* The expressions of a body and of the bodies of its functions: each with
\* the ID of the function whose body it is in (0 for the body itself) and
\* whether it is the last one of its body.
ExpressionsOf(body) ==
    {[id |-> body[i].id, expression |-> body[i].expression,
      in |-> 0, is_last |-> i = Len(body)] : i \in DOMAIN body}
    \cup UNION {{[id |-> body[i].expression.body[k].id,
                  expression |-> body[i].expression.body[k].expression,
                  in |-> body[i].id,
                  is_last |-> k = Len(body[i].expression.body)] :
                     k \in DOMAIN body[i].expression.body} :
                i \in {j \in DOMAIN body : body[j].expression.kind = "Function"}}

\* What an expression itself refers to; the expressions of the body of a
\* function refer for themselves.
OwnReferences(expr) ==
    IF expr.kind = "Function" THEN {} ELSE referenced_ids(expr)

\* The needed expressions of a body: those of a needed body (the body
\* itself, or the body of a needed function) that are its return value,
\* impure, or referred to by a needed expression.
RECURSIVE NeededFrom(_, _)
NeededFrom(body, needed) ==
    LET more == {e.id : e \in {x \in ExpressionsOf(body) :
                    /\ x.in = 0 \/ x.in \in needed
                    /\ \/ x.is_last
                       \/ ~is_pure(x.expression)
                       \/ \E y \in ExpressionsOf(body) :
                             y.id \in needed /\ x.id \in OwnReferences(y.expression)}}
    IN  IF more \subseteq needed THEN needed ELSE NeededFrom(body, needed \cup more)

Needed(body) == NeededFrom(body, {})

IdsOf(body) == {e.id : e \in ExpressionsOf(body)}

\* The expressions of body whose IDs are in ids, in their order, in the body
\* and in the bodies of its functions.
RECURSIVE Restricted(_, _)
Restricted(body, ids) ==
    IF body = <<>> THEN <<>>
    ELSE IF body[1].id \notin ids THEN Restricted(Tail(body), ids)
    ELSE IF body[1].expression.kind = "Function"
    THEN <<[body[1] EXCEPT !.expression.body = Restricted(@, ids)]>>
             \o Restricted(Tail(body), ids)
    ELSE <<body[1]>> \o Restricted(Tail(body), ids)

\* The kept expressions are unchanged and in their order, and none refers
\* to a removed expression.
KeptInOrderAndClosed ==
    optPhase = "shaken" =>
        /\ optBody = Restricted(optOriginal, IdsOf(optBody))
        /\ \A e \in ExpressionsOf(optBody) :
              OwnReferences(e.expression) \cap (IdsOf(optOriginal) \ IdsOf(optBody)) = {}

\* Every needed expression is kept.
NeededAreKept ==
    optPhase = "shaken" => Needed(optOriginal) \subseteq IdsOf(optBody)

MaxFrames == 3
MaxTracedEvents == 6

Fibers == {0, 1}
RootFiber == 0

\* How a frame of the call stack of a fiber was entered: by the call of the
\* main function, by a call between trace expressions, by a call without
\* them (tracing of calls is off for the module of the call), or by running
\* a module.
FrameKinds == {"main", "traced", "untraced", "module"}

InFiber(fiber, event) == [fiber |-> fiber, event |-> event]

\* Tracer::add of the FullTracer: the event is recorded.
add(events, fiber, event) == Append(events, InFiber(fiber, event))

\* DebugTracer::call_started and DebugTracer::call_ended on the call stack
\* of one fiber; call_ended unwraps what it pops.
call_started(stack, entry) == Append(stack, entry)
call_ended(stack) == SubSeq(stack, 1, Len(stack) - 1)

\* FullTracer::stack_traces: the stack of open calls and modules per fiber,
\* rebuilt from the recorded events; unwrap_failed when an event pops an
\* empty stack.
RECURSIVE stack_traces_from(_, _, _)
stack_traces_from(events, stacks, unwrap_failed) ==
    IF events = <<>> THEN [stacks |-> stacks, unwrap_failed |-> unwrap_failed]
    ELSE LET fiber == Head(events).fiber
             event == Head(events).event
         IN  IF event \in {"CallStarted", "ModuleStarted"}
             THEN stack_traces_from(Tail(events),
                      [stacks EXCEPT ![fiber] =
                          Append(@, IF event = "CallStarted" THEN "Call" ELSE "Module")],
                      unwrap_failed)
             ELSE IF stacks[fiber] = <<>>
             THEN stack_traces_from(Tail(events), stacks, TRUE)
             ELSE stack_traces_from(Tail(events),
                      [stacks EXCEPT ![fiber] = call_ended(@)], unwrap_failed)

stack_traces(events) == stack_traces_from(events, [f \in Fibers |-> <<>>], FALSE)

\* The tracers get an event of a fiber.
Traced(fiber, event) ==
    /\ Len(clEvents) < MaxTracedEvents
    /\ clEvents' = add(clEvents, fiber, event)
    /\ IF event \in {"CallStarted", "ModuleStarted"}
       THEN /\ clStack' = [clStack EXCEPT ![fiber] =
                              call_started(@, IF event = "CallStarted" THEN "Call" ELSE "Module")]
            /\ UNCHANGED clUnwrapFailed
       ELSE IF clStack[fiber] = <<>>
       THEN /\ clUnwrapFailed' = TRUE
            /\ UNCHANGED clStack
       ELSE /\ clStack' = [clStack EXCEPT ![fiber] = call_ended(@)]
            /\ UNCHANGED clUnwrapFailed

\* run of the CLI up to the first instruction: the embedder reports the
\* call of the main function for the root fiber; the other fiber was
\* spawned and runs a function that no traced call entered.
CallsInit ==
    /\ clFrames = [f \in Fibers |-> IF f = RootFiber THEN <<"main">> ELSE <<"untraced">>]
    /\ clPending = [f \in Fibers |-> "none"]
    /\ clStatus = [f \in Fibers |-> "running"]
    /\ clEvents = <<InFiber(RootFiber, "CallStarted")>>
    /\ clStack = [f \in Fibers |-> IF f = RootFiber THEN <<"Call">> ELSE <<>>]
    /\ clUnwrapFailed = FALSE

CanRun(f) == clStatus[f] = "running" /\ clFrames[f] # <<>>

\* A lowering that puts TraceCallEnds after every call.
ends_after_every_call(kind) == "ends"

\* What comes after the return from a frame: the lowering put TraceCallEnds
\* after the calls it put TraceCallStarts before, and after no other.
pending_after_return(kind) == IF kind = "traced" THEN "ends" ELSE "none"

\* Instruction::TraceCallStarts: the call that comes next is reported.
RunTraceCallStarts ==
    \E f \in Fibers :
        /\ CanRun(f)
        /\ clPending[f] = "none"
        /\ Len(clFrames[f]) < MaxFrames
        /\ Traced(f, "CallStarted")
        /\ clPending' = [clPending EXCEPT ![f] = "call"]
        /\ UNCHANGED <<clFrames, clStatus>>

\* Instruction::Call of a function: a frame is pushed.  The call comes
\* after its TraceCallStarts, or the lowering added no trace expressions to
\* it.
RunCall ==
    \E f \in Fibers :
        /\ CanRun(f)
        /\ clPending[f] \in {"none", "call"}
        /\ Len(clFrames[f]) < MaxFrames
        /\ clFrames' = [clFrames EXCEPT ![f] =
                           Append(@, IF clPending[f] = "call" THEN "traced" ELSE "untraced")]
        /\ clPending' = [clPending EXCEPT ![f] = "none"]
        /\ UNCHANGED <<clStatus, clEvents, clStack, clUnwrapFailed>>

\* A module starts to run in the fiber: the tracer gets module_started.
ModuleStarts ==
    \E f \in Fibers :
        /\ CanRun(f)
        /\ clPending[f] = "none"
        /\ Len(clFrames[f]) < MaxFrames
        /\ Traced(f, "ModuleStarted")
        /\ clFrames' = [clFrames EXCEPT ![f] = Append(@, "module")]
        /\ UNCHANGED <<clPending, clStatus>>

\* Instruction::Return: the frame is popped.  After a traced call the
\* TraceCallEnds of the call comes next; the end of a module is reported
\* with its exports; the fiber is done when its last frame returns.
RunReturn ==
    \E f \in Fibers :
        /\ CanRun(f)
        /\ clPending[f] = "none"
        /\ LET kind == clFrames[f][Len(clFrames[f])]
           IN  /\ clFrames' = [clFrames EXCEPT ![f] = SubSeq(@, 1, Len(@) - 1)]
               /\ clPending' = [clPending EXCEPT ![f] = pending_after_return(kind)]
               /\ clStatus' = [clStatus EXCEPT ![f] =
                                  IF Len(clFrames[f]) = 1 THEN "done" ELSE @]
               /\ IF kind = "module"
                  THEN Traced(f, "ModuleEnded")
                  ELSE UNCHANGED <<clEvents, clStack, clUnwrapFailed>>

\* Instruction::TraceCallEnds: the end of the call that returned is
\* reported.
RunTraceCallEnds ==
    \E f \in Fibers :
        /\ CanRun(f)
        /\ clPending[f] = "ends"
        /\ Traced(f, "CallEnded")
        /\ clPending' = [clPending EXCEPT ![f] = "none"]
        /\ UNCHANGED <<clFrames, clStatus>>

\* Instruction::Panic: the fiber panics and runs no further instruction.
RunPanic ==
    \E f \in Fibers :
        /\ CanRun(f)
        /\ clPending[f] = "none"
        /\ clStatus' = [clStatus EXCEPT ![f] = "panicked"]
        /\ UNCHANGED <<clFrames, clPending, clEvents, clStack, clUnwrapFailed>>

\* run of the CLI after tear_down: the main function finished and the
\* embedder reports the end of its call.
MainFinished ==
    /\ clStatus[RootFiber] = "done"
    /\ Traced(RootFiber, "CallEnded")
    /\ clStatus' = [clStatus EXCEPT ![RootFiber] = "torn down"]
    /\ UNCHANGED <<clFrames, clPending>>

InitCalls == CallsInit /\ IdleExcept("calls")
NextCalls ==
    \/ RunTraceCallStarts /\ FrameExcept("calls")
    \/ RunCall /\ FrameExcept("calls")
    \/ ModuleStarts /\ FrameExcept("calls")
    \/ RunReturn /\ FrameExcept("calls")
    \/ RunTraceCallEnds /\ FrameExcept("calls")
    \/ RunPanic /\ FrameExcept("calls")
    \/ MainFinished /\ FrameExcept("calls")
SpecCalls == InitCalls /\ [][NextCalls]_vars

(***************************************************************************)
(* C8.  Trace starts and ends are balanced within each fiber.              *)
(***************************************************************************)
\* The events of one fiber, in their order.
EventsOf(fiber) == SelectSeq(clEvents, LAMBDA e : e.fiber = fiber)

\* How many of the events are the given one.
Count(events, event) == Len(SelectSeq(events, LAMBDA e : e.event = event))

\* In every prefix of the events there are at most as many ends as starts,
\* of calls and of modules.
Balanced(events) ==
    \A n \in 0..Len(events) :
        /\ Count(SubSeq(events, 1, n), "CallEnded") <= Count(SubSeq(events, 1, n), "CallStarted")
        /\ Count(SubSeq(events, 1, n), "ModuleEnded") <= Count(SubSeq(events, 1, n), "ModuleStarted")

\* C8: within each fiber, trace start and end events are balanced: every
\* call-ended (module-ended) event comes after a call-started
\* (module-started) event of the same fiber that has not been ended, and no
\* tracer pops its stack of open calls while it is empty.
C8_Balanced ==
    /\ \A f \in Fibers : Balanced(EventsOf(f))
    /\ ~clUnwrapFailed
    /\ ~stack_traces(clEvents).unwrap_failed
    /\ \A f \in Fibers : stack_traces(clEvents).stacks[f] = clStack[f]

\* The spawned fiber ended a traced call while the root fiber has open
\* calls, and the main function finished and its end was reported.
C8_Witness ==
    /\ Count(EventsOf(1), "CallEnded") >= 1
    /\ Count(EventsOf(RootFiber), "CallEnded") >= 2
    /\ clStatus[RootFiber] = "torn down"
    /\ clStack[RootFiber] = <<>>

(***************************************************************************)
(* Channels.  A channel has a capacity, a buffer of packets, and two       *)
(* queues of waiting operations: the pending sends with their packets and  *)
(* the pending receives.  An operation gets an ID when it is started and   *)
(* appears in the completed operations of the VM when it completes.  The   *)
(* StdoutService of the CLI always has one receive on its channel.         *)
(***************************************************************************)
MaxCapacity == 2
MaxSends == 4
MaxOperations == 8

\* A packet is named by the position of its send among the sends.
Packets == 1..MaxSends

Sent(operation) == [operation |-> operation, kind |-> "Sent", packet |-> 0]
Received(operation, packet) ==
    [operation |-> operation, kind |-> "Received", packet |-> packet]

\* The newest entry of a queue and the queue without it.
pop_back(queue) ==
    [item |-> queue[Len(queue)], rest |-> SubSeq(queue, 1, Len(queue) - 1)]

\* The oldest entry of a queue and the queue without it.
pop_front(queue) == [item |-> Head(queue), rest |-> Tail(queue)]

\* The state the operations of a channel work on: the channel, the
\* completed operations, the packets received so far and the next
\* operation ID.
ChannelState(ch, completed, received, next) ==
    [channel |-> ch, completed |-> completed, received |-> received, next |-> next]

\* The pending operations of a channel are worked on as far as possible: a
\* pending send puts its packet into a buffer that is not full and
\* completes, a pending receive completes with the oldest packet of the
\* buffer, and on a channel without a buffer the oldest pending send hands
\* its packet to the oldest pending receive.
RECURSIVE work_on_pending_operations(_)
work_on_pending_operations(st) ==
    LET ch == st.channel
    IN  IF Len(ch.buffer) < ch.capacity /\ ch.pending_sends # <<>>
        THEN LET send == pop_front(ch.pending_sends)
             IN  work_on_pending_operations(
                     [st EXCEPT !.channel.pending_sends = send.rest,
                                !.channel.buffer = Append(@, send.item.packet),
                                !.completed = @ \cup {Sent(send.item.operation)}])
        ELSE IF ch.buffer # <<>> /\ ch.pending_receives # <<>>
        THEN LET packet == pop_front(ch.buffer)
                 receive == pop_front(ch.pending_receives)
             IN  work_on_pending_operations(
                     [st EXCEPT !.channel.buffer = packet.rest,
                                !.channel.pending_receives = receive.rest,
                                !.completed = @ \cup {Received(receive.item, packet.item)},
                                !.received = Append(@, packet.item)])
        ELSE IF ch.capacity = 0 /\ ch.pending_sends # <<>> /\ ch.pending_receives # <<>>
        THEN LET send == pop_front(ch.pending_sends)
                 receive == pop_front(ch.pending_receives)
             IN  work_on_pending_operations(
                     [st EXCEPT !.channel.pending_sends = send.rest,
                                !.channel.pending_receives = receive.rest,
                                !.completed = @ \cup {Sent(send.item.operation),
                                                      Received(receive.item, send.item.packet)},
                                !.received = Append(@, send.item.packet)])
        ELSE st

\* Vm::send(channel, packet) and Vm::receive(channel): the operation gets
\* the next ID and joins its queue.
vm_send(st, packet) ==
    work_on_pending_operations(
        [st EXCEPT !.channel.pending_sends =
                       Append(@, [operation |-> st.next, packet |-> packet]),
                   !.next = @ + 1])
vm_receive(st) ==
    work_on_pending_operations(
        [st EXCEPT !.channel.pending_receives = Append(@, st.next),
                   !.next = @ + 1])

\* Vm::create_channel(capacity)
create_channel(capacity) ==
    [capacity |-> capacity, buffer |-> <<>>, pending_sends |-> <<>>,
     pending_receives |-> <<>>]

\* A service that prints the packet of its receive and starts no new one.
print_without_receive(st, current, printed) ==
    IF \E c \in st.completed : c.operation = current /\ c.kind = "Received"
    THEN LET c == CHOOSE c \in st.completed : c.operation = current
         IN  [st |-> [st EXCEPT !.completed = @ \ {c}],
              current_receive |-> current,
              printed |-> Append(printed, c.packet)]
    ELSE [st |-> st, current_receive |-> current, printed |-> printed]

\* StdoutService::run: while the current receive is completed, it is taken
\* from the completed operations, its packet is printed, and the next
\* receive is started.  The result is [st, current_receive, printed].
RECURSIVE stdout_run(_, _, _)
stdout_run(st, current, printed) ==
    IF \E c \in st.completed : c.operation = current /\ c.kind = "Received"
    THEN LET c == CHOOSE c \in st.completed : c.operation = current
         IN  stdout_run(vm_receive([st EXCEPT !.completed = @ \ {c}]),
                        st.next, Append(printed, c.packet))
    ELSE [st |-> st, current_receive |-> current, printed |-> printed]

CurrentChannelState ==
    ChannelState(channel, completed_operations, chReceived, chNextOperation)

\* StdoutService::new, with a channel of any capacity.
ChannelInit ==
    \E capacity \in 0..MaxCapacity :
        LET st == vm_receive(ChannelState(create_channel(capacity), {}, <<>>, 0))
        IN  /\ channel = st.channel
            /\ completed_operations = st.completed
            /\ chReceived = st.received
            /\ chNextOperation = st.next
            /\ current_receive = 0
            /\ chSent = <<>>
            /\ chPrinted = <<>>

\* A fiber sends a packet to the channel.
ChannelSend ==
    /\ Len(chSent) < MaxSends
    /\ chNextOperation < MaxOperations
    /\ LET st == vm_send(CurrentChannelState, Len(chSent) + 1)
       IN  /\ channel' = st.channel
           /\ completed_operations' = st.completed
           /\ chReceived' = st.received
           /\ chNextOperation' = st.next
    /\ chSent' = Append(chSent, Len(chSent) + 1)
    /\ UNCHANGED <<current_receive, chPrinted>>

\* A fiber receives from the channel.
ChannelReceive ==
    /\ chNextOperation < MaxOperations
    /\ LET st == vm_receive(CurrentChannelState)
       IN  /\ channel' = st.channel
           /\ completed_operations' = st.completed
           /\ chReceived' = st.received
           /\ chNextOperation' = st.next
    /\ UNCHANGED <<chSent, current_receive, chPrinted>>

\* A fiber takes one of its completed operations and runs on.
TakeCompleted ==
    \E c \in completed_operations :
        /\ c.operation # current_receive
        /\ completed_operations' = completed_operations \ {c}
        /\ UNCHANGED <<channel, chSent, chReceived, chNextOperation, current_receive,
                       chPrinted>>

\* StdoutService::run
StdoutRun ==
    /\ \E c \in completed_operations : c.operation = current_receive
    /\ chNextOperation + 1 + Len(channel.pending_sends) + Len(channel.buffer)
          <= MaxOperations
    /\ LET result == stdout_run(CurrentChannelState, current_receive, chPrinted)
       IN  /\ channel' = result.st.channel
           /\ completed_operations' = result.st.completed
           /\ chReceived' = result.st.received
           /\ chNextOperation' = result.st.next
           /\ current_receive' = result.current_receive
           /\ chPrinted' = result.printed
    /\ UNCHANGED chSent

InitChannel == ChannelInit /\ IdleExcept("channel")
NextChannel ==
    \/ ChannelSend /\ FrameExcept("channel")
    \/ ChannelReceive /\ FrameExcept("channel")
    \/ TakeCompleted /\ FrameExcept("channel")
    \/ StdoutRun /\ FrameExcept("channel")
SpecChannel == InitChannel /\ [][NextChannel]_vars

(***************************************************************************)
(* C9.  A receive completes with the oldest packet not yet received.       *)
(***************************************************************************)
\* The packets of the pending sends, oldest first.
PendingPackets == [i \in DOMAIN channel.pending_sends |-> channel.pending_sends[i].packet]

\* C9: a receive on a channel always completes with the oldest packet whose
\* send was enqueued and has not been received: the packets are received in
\* the order their sends were enqueued, and every enqueued packet is
\* received, in the buffer or with its pending send; none is skipped or
\* lost.
C9_Fifo ==
    /\ chReceived = SubSeq(chSent, 1, Len(chReceived))
    /\ chSent = chReceived \o channel.buffer \o PendingPackets

\* Two sends waited on a channel without a buffer, receives completed with
\* their packets, and a later packet is still in flight.
C9_Witness ==
    /\ channel.capacity = 0
    /\ Len(chReceived) >= 2
    /\ Len(chSent) > Len(chReceived)
    /\ Len(chPrinted) >= 1
    /\ Len(chPrinted) < Len(chReceived)

(***************************************************************************)
(* Fibers.  A fiber spawns children with parallel (children may spawn      *)
(* further children of the same parent) or with try (one child) and waits  *)
(* for them.  A panic of a child of a parallel propagates to the parent    *)
(* and cancels the other children; a panic of the child of a try is a      *)
(* value for the parent.                                                   *)
(***************************************************************************)
MaxFibers == 4
MaxInstructions == 2

FiberIds == 0..(MaxFibers - 1)

Ended == {"Done", "Panicked", "Canceled"}

ChildrenOf(parent, f) == {c \in FiberIds : c # f /\ parent[c] = f}

\* A parent that runs on as soon as one of its children has ended.
some_child_ended(status, parent, f) ==
    \E c \in ChildrenOf(parent, f) : status[c] \in Ended

\* Every child of the fiber has ended.
all_children_ended(status, parent, f) ==
    \A c \in ChildrenOf(parent, f) : status[c] \in Ended

\* The fibers below a fiber.
RECURSIVE DescendantsOf(_, _)
DescendantsOf(parent, f) ==
    ChildrenOf(parent, f)
    \cup UNION {DescendantsOf(parent, c) : c \in ChildrenOf(parent, f)}

\* The fibers below a fiber that have not ended are canceled.
cancel_below(status, parent, f) ==
    [x \in FiberIds |->
        IF x \in DescendantsOf(parent, f) /\ status[x] \notin Ended /\ status[x] # "NotCreated"
        THEN "Canceled" ELSE status[x]]

\* A child has ended: its parent runs on when all its children have ended.
resume_parent(status, parent, f) ==
    IF parent[f] # f /\ all_children_ended(status, parent, parent[f])
    THEN [status EXCEPT ![parent[f]] = "Running"]
    ELSE status

\* A fiber panics.  The child of a try hands the panic to its parent as a
\* value; the panic of a child of a parallel cancels the other children
\* and is the panic of the parent.
RECURSIVE panic(_, _, _, _)
panic(status, parent, spawned_by, f) ==
    LET panicked == [cancel_below(status, parent, f) EXCEPT ![f] = "Panicked"]
    IN  IF parent[f] = f THEN panicked
        ELSE IF spawned_by[parent[f]] = "try"
        THEN resume_parent(panicked, parent, f)
        ELSE panic(panicked, parent, spawned_by, parent[f])

NextFiber == CHOOSE c \in FiberIds :
                /\ fbStatus[c] = "NotCreated"
                /\ \A d \in FiberIds : fbStatus[d] = "NotCreated" => c <= d

FibersInit ==
    /\ fbStatus = [f \in FiberIds |-> IF f = 0 THEN "Running" ELSE "NotCreated"]
    /\ fbParent = [f \in FiberIds |-> f]
    /\ fbSpawnedBy = [f \in FiberIds |-> "none"]
    /\ fbInstructions = [f \in FiberIds |-> 0]

\* A running fiber executes an instruction that is not one of the below.
RunInstruction ==
    \E f \in FiberIds :
        /\ fbStatus[f] = "Running"
        /\ fbInstructions[f] < MaxInstructions
        /\ fbInstructions' = [fbInstructions EXCEPT ![f] = @ + 1]
        /\ UNCHANGED <<fbStatus, fbParent, fbSpawnedBy>>

\* A running fiber calls parallel or try: a child is spawned and the fiber
\* waits for its children.
Spawn ==
    \E f \in FiberIds, kind \in {"parallel", "try"} :
        /\ fbStatus[f] = "Running"
        /\ \E c \in FiberIds : fbStatus[c] = "NotCreated"
        /\ fbStatus' = [fbStatus EXCEPT ![f] = "WaitingForChildren",
                                        ![NextFiber] = "Running"]
        /\ fbParent' = [fbParent EXCEPT ![NextFiber] = f]
        /\ fbSpawnedBy' = [fbSpawnedBy EXCEPT ![f] = kind]
        /\ UNCHANGED fbInstructions

\* A running child of a parallel spawns a further child of its parent.
SpawnInParallel ==
    \E f \in FiberIds :
        /\ fbStatus[f] = "Running"
        /\ fbParent[f] # f
        /\ fbSpawnedBy[fbParent[f]] = "parallel"
        /\ \E c \in FiberIds : fbStatus[c] = "NotCreated"
        /\ fbStatus' = [fbStatus EXCEPT ![NextFiber] = "Running"]
        /\ fbParent' = [fbParent EXCEPT ![NextFiber] = fbParent[f]]
        /\ UNCHANGED <<fbSpawnedBy, fbInstructions>>

\* A running fiber returns from its function.
FiberDone ==
    \E f \in FiberIds :
        /\ fbStatus[f] = "Running"
        /\ fbStatus' = resume_parent([fbStatus EXCEPT ![f] = "Done"], fbParent, f)
        /\ UNCHANGED <<fbParent, fbSpawnedBy, fbInstructions>>

\* A running fiber panics.
FiberPanics ==
    \E f \in FiberIds :
        /\ fbStatus[f] = "Running"
        /\ fbStatus' = panic(fbStatus, fbParent, fbSpawnedBy, f)
        /\ UNCHANGED <<fbParent, fbSpawnedBy, fbInstructions>>

InitFibers == FibersInit /\ IdleExcept("fibers")
NextFibers ==
    \/ RunInstruction /\ FrameExcept("fibers")
    \/ Spawn /\ FrameExcept("fibers")
    \/ SpawnInParallel /\ FrameExcept("fibers")
    \/ FiberDone /\ FrameExcept("fibers")
    \/ FiberPanics /\ FrameExcept("fibers")
SpecFibers == InitFibers /\ [][NextFibers]_vars

(***************************************************************************)
(* C10.  A parent waits until every one of its children has finished.      *)
(***************************************************************************)
\* No fiber that the given one waits for is still there.
NoChildLeft(status, parent, f) ==
    \A c \in FiberIds \ {f} : parent[c] = f => status[c] \in Ended

\* A step of a fiber that waits for its children: it executes no
\* instruction, and when its status changes, every one of its children has
\* ended.
WaitingStep(f) ==
    fbStatus[f] = "WaitingForChildren" =>
        /\ fbInstructions'[f] = fbInstructions[f]
        /\ fbStatus'[f] # "WaitingForChildren" =>
              NoChildLeft(fbStatus', fbParent', f)

\* C10: after a fiber has spawned children, with parallel or with try, its
\* status stays WaitingForChildren and it executes no instruction until
\* every one of its children has finished; it is runnable again only after
\* the last child has ended.
C10_WaitingForChildren ==
    /\ [](\A f \in FiberIds :
            /\ fbStatus[f] = "WaitingForChildren" =>
                  ~NoChildLeft(fbStatus, fbParent, f)
            /\ fbStatus[f] = "Running" => NoChildLeft(fbStatus, fbParent, f))
    /\ [][\A f \in FiberIds : WaitingStep(f)]_vars

\* The root fiber waits: one of its children is done, another one still
\* runs and has executed an instruction.
C10_Witness ==
    /\ fbStatus[0] = "WaitingForChildren"
    /\ \E c, d \in ChildrenOf(fbParent, 0) :
          /\ fbStatus[c] = "Done"
          /\ fbStatus[d] = "Running"
          /\ fbInstructions[d] >= 1

(***************************************************************************)
(* C21.  optimize_body leaves the visible expressions as it found them.    *)
(***************************************************************************)
\* The expression that the next iteration of optimize_body optimizes.
PendingExpressions ==
    IF optPhase = "body" /\ optIndex < Len(optBody)
    THEN {optBody[optIndex + 1].expression}
    ELSE {}

MaxClones == 3

\* The fields of DefaultSymbols with the texts that DefaultSymbols::new
\* creates for them, in the order of new.
NewSymbols ==
    <<<<"arguments", "Arguments">>, <<"builtin", "Builtin">>,
       <<"close", "Close">>, <<"compile", "Compile">>,
       <<"equal", "Equal">>, <<"error", "Error">>, <<"false_", "False">>,
       <<"file", "File">>, <<"file_system", "FileSystem">>,
       <<"function", "Function">>,
       <<"get_next_request", "GetNextRequest">>,
       <<"get_random_bytes", "GetRandomBytes">>, <<"greater", "Greater">>,
       <<"http_server", "HttpServer">>, <<"int", "Int">>,
       <<"instantiate", "Instantiate">>, <<"less", "Less">>,
       <<"list", "List">>, <<"not_an_integer", "NotAnInteger">>,
       <<"not_utf8", "NotUtf8">>, <<"nothing", "Nothing">>, <<"ok", "Ok">>,
       <<"open", "Open">>, <<"read_to_end", "ReadToEnd">>,
       <<"request", "Request">>, <<"send_response", "SendResponse">>,
       <<"stdin", "Stdin">>, <<"stdout", "Stdout">>,
       <<"struct_", "Struct">>, <<"system_clock", "SystemClock">>,
       <<"tag", "Tag">>, <<"text", "Text">>, <<"true_", "True">>,
       <<"wasm", "Wasm">>>>

\* The fields that DefaultSymbols::clone_to_heap_with_mapping sets, each to
\* the clone of the same field.
ClonedFields ==
    <<"arguments", "builtin", "close", "compile", "equal", "error",
       "false_", "file", "file_system", "function", "get_next_request",
       "get_random_bytes", "greater", "http_server", "int", "instantiate",
       "less", "list", "not_an_integer", "not_utf8", "nothing", "ok",
       "open", "read_to_end", "request", "send_response", "stdin",
       "stdout", "struct_", "system_clock", "tag", "text", "true_", "wasm">>

\* The fields that DefaultSymbols::all_symbols lists, in its order.
ListedFields ==
    <<"arguments", "builtin", "close", "equal", "error", "false_", "file",
       "file_system", "function", "get_next_request", "get_random_bytes",
       "greater", "http_server", "int", "less", "list", "not_an_integer",
       "not_utf8", "nothing", "ok", "open", "read_to_end", "request",
       "send_response", "stdin", "stdout", "struct_", "system_clock",
       "tag", "text", "true_">>

\* The order of str: the texts of the model in ascending order.
TextOrder ==
    <<"Arguments", "Builtin", "Close", "Compile", "Equal", "Error",
       "False", "File", "FileSystem", "Function", "GetNextRequest",
       "GetRandomBytes", "Greater", "HttpServer", "Instantiate", "Int",
       "Less", "List", "Main", "NotAnInteger", "NotUtf8", "Nothing", "Ok",
       "Open", "ReadToEnd", "Request", "SendResponse", "Stdin", "Stdout",
       "Struct", "SystemClock", "Tag", "Text", "True", "Wasm", "Zero">>

SymbolFields == {NewSymbols[i][1] : i \in DOMAIN NewSymbols}
TextOf(field) == NewSymbols[CHOOSE i \in DOMAIN NewSymbols : NewSymbols[i][1] = field][2]

\* Ord for str on the texts of the model: "Less", "Equal" or "Greater".
Rank(text) == CHOOSE i \in DOMAIN TextOrder : TextOrder[i] = text
cmp(a, b) ==
    IF Rank(a) < Rank(b) THEN "Less"
    ELSE IF Rank(a) > Rank(b) THEN "Greater" ELSE "Equal"

\* Text::create(heap, false, text)
text_create(heap, text) == [heap |-> heap, text |-> text]

\* DefaultSymbols::new
default_symbols_new(heap) ==
    [field \in SymbolFields |-> text_create(heap, TextOf(field))]

\* DefaultSymbols::clone_to_heap_with_mapping: every field it sets is the
\* clone of the same field in the other heap.
default_symbols_clone(symbols, heap) ==
    [field \in Range(ClonedFields) |-> text_create(heap, symbols[field].text)]

\* DefaultSymbols::all_symbols
all_symbols(symbols) == [i \in DOMAIN ListedFields |-> symbols[ListedFields[i]]]

\* <[T]>::binary_search_by_key over the texts of the symbols (indices
\* from 1): the search halves the range between left and right.
RECURSIVE binary_search_from(_, _, _, _)
binary_search_from(array, key, left, right) ==
    IF left >= right THEN [found |-> FALSE, index |-> left]
    ELSE LET mid == left + (right - left) \div 2
         IN  CASE cmp(array[mid + 1].text, key) = "Less" ->
                     binary_search_from(array, key, mid + 1, right)
               [] cmp(array[mid + 1].text, key) = "Greater" ->
                     binary_search_from(array, key, left, mid)
               [] OTHER -> [found |-> TRUE, index |-> mid]

binary_search_by_key(array, key) == binary_search_from(array, key, 0, Len(array))

\* DefaultSymbols::get: Some(symbol) or None.
symbols_get(symbols, text) ==
    LET found == binary_search_by_key(all_symbols(symbols), text)
    IN  IF found.found
        THEN [text |-> text, found |-> TRUE,
              symbol |-> all_symbols(symbols)[found.index + 1]]
        ELSE [text |-> text, found |-> FALSE]

\* Heap::default: the first heap with its default symbols.
SymbolsInit ==
    /\ sySymbols = default_symbols_new(0)
    /\ syHeap = 0
    /\ syGet = [text |-> "", found |-> FALSE]

\* DefaultSymbols::get(text), for the text of a symbol or another text.
SymbolsGet ==
    \E text \in Range(TextOrder) :
        /\ syGet' = symbols_get(sySymbols, text)
        /\ UNCHANGED <<sySymbols, syHeap>>

\* Heap::clone: the default symbols are cloned to the new heap.
SymbolsClone ==
    /\ syHeap < MaxClones
    /\ sySymbols' = default_symbols_clone(sySymbols, syHeap + 1)
    /\ syHeap' = syHeap + 1
    /\ UNCHANGED syGet

InitSymbols == SymbolsInit /\ IdleExcept("symbols")
NextSymbols ==
    \/ SymbolsGet /\ FrameExcept("symbols")
    \/ SymbolsClone /\ FrameExcept("symbols")
SpecSymbols == InitSymbols /\ [][NextSymbols]_vars

(***************************************************************************)
(* C22.  Every default symbol is cloned, listed and found by its text.     *)
(***************************************************************************)
\* Every symbol that new creates is there after a clone, in the heap of the
\* clone and with its text.
EverySymbolIsCloned ==
    /\ DOMAIN sySymbols = SymbolFields
    /\ \A field \in SymbolFields : sySymbols[field] = text_create(syHeap, TextOf(field))

\* get finds every symbol that all_symbols lists, and finds no text that
\* is not the text of a symbol.
ListedSymbolsAreFound ==
    /\ \A i \in DOMAIN ListedFields :
          LET got == symbols_get(sySymbols, TextOf(ListedFields[i]))
          IN  got.found /\ got.symbol = sySymbols[ListedFields[i]]
    /\ \A text \in Range(TextOrder) :
          symbols_get(sySymbols, text).found => \E field \in SymbolFields : TextOf(field) = text

\* C22: every default symbol that DefaultSymbols::new creates is also
\* copied by clone_to_heap_with_mapping and listed by all_symbols, so that
\* DefaultSymbols::get finds each default symbol by its text.
C22_DefaultSymbols ==
    \A field \in SymbolFields :
        /\ field \in Range(ClonedFields)
        /\ field \in Range(ListedFields)
        /\ symbols_get(sySymbols, TextOf(field)).found
        /\ symbols_get(sySymbols, TextOf(field)).found =>
              symbols_get(sySymbols, TextOf(field)).symbol = sySymbols[field]

\* In a cloned heap, which holds the symbol Wasm, get was asked for the text
\* Wasm and returned None.
C22_Witness ==
    /\ syHeap >= 1
    /\ sySymbols["wasm"] = text_create(syHeap, "Wasm")
    /\ syGet.text = "Wasm"
    /\ ~syGet.found

(***************************************************************************)
(* C23.  struct_ returns a struct whatever follows the opening bracket.    *)
(***************************************************************************)
\* An error node of the given kind without unparsable input.
IsErrorOf(node, error) ==
    /\ node.kind = "Error"
    /\ node.error = error
    /\ node.unparsable_input = <<>>

\* The part of a struct or of a field is there, or the error node of the
\* matching kind stands for it.
PartOrError(node, kinds, error) ==
    \/ Unwrapped(node).kind \in kinds
    \/ IsErrorOf(Unwrapped(node), error)

\* A struct node: bracket, fields and closing bracket, where an error node
\* of the matching kind stands for every part that is missing, in the
\* structs inside it as well.
RECURSIVE IsStructWithErrors(_)
IsStructWithErrors(node) ==
    /\ node.kind = "Struct"
    /\ Unwrapped(node.opening_bracket).kind = "OpeningBracket"
    /\ PartOrError(node.closing_bracket, {"ClosingBracket"}, "StructNotClosed")
    /\ \A i \in DOMAIN node.fields :
          LET field == Unwrapped(node.fields[i])
              parts == IF field.key_and_colon = <<>>
                       THEN <<field.value>>
                       ELSE <<field.key_and_colon[1][1], field.value>>
          IN  /\ field.kind = "StructField"
              /\ field.key_and_colon # <<>> =>
                    /\ PartOrError(field.key_and_colon[1][1],
                                   {"Identifier", "Struct"}, "StructFieldMissesKey")
                    /\ PartOrError(field.key_and_colon[1][2],
                                   {"Colon"}, "StructFieldMissesColon")
                    /\ PartOrError(field.value,
                                   {"Identifier", "Struct"}, "StructFieldMissesValue")
              /\ field.key_and_colon = <<>> =>
                    Unwrapped(field.value).kind \in {"Identifier", "Struct"}
              /\ \A k \in DOMAIN parts :
                    Unwrapped(parts[k]).kind = "Struct" =>
                        IsStructWithErrors(Unwrapped(parts[k]))

\* Every iteration of the loop of struct_ that goes on has consumed input,
\* so that the loop ends.
RECURSIVE LoopConsumes(_, _)
LoopConsumes(l, indentation) ==
    LET after == struct_iteration(l, indentation)
    IN  IF ~after.has_key /\ ~after.has_value /\ after.comma = <<>> THEN TRUE
        ELSE /\ Len(after.input) < Len(l.outer_input)
             /\ LoopConsumes(push_field(after), indentation)

\* Once the opening bracket is read, struct_ ends and returns a struct in
\* which an error node of the matching kind, without unparsable input,
\* stands for every missing part.
StructIsReturned ==
    (parseResult.done /\ StartsWith(parseInput, "[")) =>
        /\ LoopConsumes(struct_locals(opening_bracket(parseInput), parseIndentation),
                        parseIndentation)
        /\ parseResult.ok
        /\ IsStructWithErrors(parseResult.node)

\* The input starts with a part of a field: a key or a value, a colon, or
\* a comma.
StartsWithFieldPart(input) ==
    \/ StartsWith(input, "a")
    \/ StartsWith(input, "[")
    \/ StartsWith(input, ",")
    \/ StartsWith(input, ":") /\ ~colon_equals_sign(input).ok

\* Parsing goes on with the next field: the fields end only where, after
\* the whitespace before a key, no part of a field comes next.
FieldsGoOn ==
    (parseResult.done /\ parseResult.ok
        /\ Unwrapped(parseResult.node.closing_bracket).kind = "Error") =>
        ~StartsWithFieldPart(
            whitespaces_and_newlines(parseResult.rest, parseIndentation + 1, TRUE).rest)

\* C23: once an opening bracket has been read, struct_ always terminates
\* and returns a Struct node: a missing key, colon, value or closing
\* bracket is represented by an Error node of the matching kind whose
\* unparsable input is empty, and parsing goes on with the next field.
C23_StructWithErrors == StructIsReturned /\ FieldsGoOn

\* struct_ was given a bracket, a colon without key and value, and the
\* closing bracket: it returned a struct without fields that is not closed,
\* and the colon and the closing bracket remain.
C23_Witness ==
    /\ parseResult.done
    /\ parseResult.ok
    /\ parseInput = <<"[", ":", "]">>
    /\ parseResult.node.fields = <<>>
    /\ IsErrorOf(parseResult.node.closing_bracket, "StructNotClosed")
    /\ parseResult.rest = <<":", "]">>

(***************************************************************************)
(* C24.  whitespaces_and_newlines stays within the indentation.            *)
(***************************************************************************)
MaxWhitespaceLen == 5
MaxIndentation == 2
WhitespaceChars == {" ", "\n", "#", "a"}

WhitespaceInit ==
    /\ wsInput \in SeqUpTo(WhitespaceChars, MaxWhitespaceLen)
    /\ wsIndentation \in 0..MaxIndentation
    /\ wsAlsoComments \in BOOLEAN
    /\ wsResult = [done |-> FALSE]

\* One call of whitespaces_and_newlines.
WhitespacesAndNewlines ==
    /\ ~wsResult.done
    /\ LET result == whitespaces_and_newlines(wsInput, wsIndentation, wsAlsoComments)
       IN  wsResult' = [done |-> TRUE, rest |-> result.rest,
                        whitespace |-> result.whitespace]
    /\ UNCHANGED <<wsInput, wsIndentation, wsAlsoComments>>

InitWhitespace == WhitespaceInit /\ IdleExcept("whitespace")
NextWhitespace == WhitespacesAndNewlines /\ FrameExcept("whitespace")
SpecWhitespace == InitWhitespace /\ [][NextWhitespace]_vars

\* The text of the parts that were returned.
RECURSIVE WhitespaceText(_)
WhitespaceText(parts) ==
    IF parts = <<>> THEN <<>>
    ELSE LET part == Head(parts)
             text == CASE part.kind = "Newline" -> <<"\n">>
                       [] part.kind = "Whitespace" -> part.text
                       [] part.kind = "Comment" -> <<"#">> \o part.text
         IN  text \o WhitespaceText(Tail(parts))

\* The line that starts at position from of s is indented by at least the
\* given number of levels, two spaces each.
IndentedBy(s, from, levels) ==
    /\ from + 2 * levels - 1 <= Len(s)
    /\ \A i \in from..(from + 2 * levels - 1) : s[i] = " "

\* Position i of s is inside a comment: a number sign comes before it on
\* its line.
InComment(s, i) ==
    \E j \in 1..i : s[j] = "#" /\ \A k \in j..i : s[k] # "\n"

PendingReceivesOf(ch, operation) ==
    Cardinality({i \in DOMAIN ch.pending_receives :
                    ch.pending_receives[i] = operation})

\* The completed receives with the operation that nobody has taken yet.
CompletedReceivesOf(completed, operation) ==
    {c \in completed : c.operation = operation /\ c.kind = "Received"}

\* The receive of the service is outstanding once: it waits at the
\* channel, or it is completed and the service has not yet taken it.
OneReceiveOutstanding ==
    PendingReceivesOf(channel, current_receive)
        + Cardinality(CompletedReceivesOf(completed_operations, current_receive)) = 1

\* A step of the service: the receive it had is taken, every receive that
\* it started is a new operation, and what it prints are the packet of the
\* receive it had and then the packets of the receives that completed
\* during the step, in the order they completed.
ServiceStep ==
    current_receive' # current_receive =>
        /\ CompletedReceivesOf(completed_operations, current_receive) # {}
        /\ CompletedReceivesOf(completed_operations', current_receive) = {}
        /\ PendingReceivesOf(channel', current_receive) = 0
        /\ current_receive' >= chNextOperation
        /\ Len(chReceived') >= Len(chReceived)
        /\ LET first == CHOOSE c \in CompletedReceivesOf(completed_operations,
                                                         current_receive) : TRUE
           IN  chPrinted' = chPrinted \o <<first.packet>>
                               \o SubSeq(chReceived', Len(chReceived) + 1, Len(chReceived'))

\* Without a step of the service nothing is printed.
NoServiceStep ==
    current_receive' = current_receive => chPrinted' = chPrinted

\* s is t without some of its elements.
RECURSIVE IsSubsequence(_, _)
IsSubsequence(s, t) ==
    IF s = <<>> THEN TRUE
    ELSE IF t = <<>> THEN FALSE
    ELSE IF Head(s) = Head(t) THEN IsSubsequence(Tail(s), Tail(t))
    ELSE IsSubsequence(s, Tail(t))

CloneCountsStep ==
    hpLast'.op = "clone" =>
        \A i \in HandleIds :
            /\ RefcountOf(hpHeaps'[hpLast'.other].handle_refcounts, i)
                 = RefcountOf(hpHeaps[hpLast'.heap].handle_refcounts, i)
            /\ RefcountOf(hpHeaps'[hpLast'.other].handle_refcounts, i)
                 = LiveHandles(hpLast.other, i)'

\* C26: after Heap::clone, the cloned heap's refcount for each handle ID
\* equals the original heap's refcount for that ID, i.e. the number of
\* handle objects the clone contains.
C26_CloneCounts == [][CloneCountsStep]_vars

\* What the code does: the refcounts of the original are copied, and every
\* handle object that the objects of the new heap capture is counted once
\* more.
CloneCountsCopiedAndCloned ==
    [][hpLast'.op = "clone" =>
          \A i \in HandleIds :
              RefcountOf(hpHeaps'[hpLast'.other].handle_refcounts, i)
                = RefcountOf(hpHeaps[hpLast'.heap].handle_refcounts, i)
                  + CapturedHandles(hpLast.other, i)']_vars

\* A heap with one handle, captured by a closure, was cloned: the original
\* counts one handle and the clone two.
C26_Witness ==
    /\ hpLast.op = "clone"
    /\ CapturedHandles(hpLast.other, 1) = 1
    /\ hpStack[hpLast.other][1] = 0
    /\ RefcountOf(hpHeaps[hpLast.heap].handle_refcounts, 1) = 1
    /\ RefcountOf(hpHeaps[hpLast.other].handle_refcounts, 1) = 2

(***************************************************************************)
(* C27.  How the instructions of a function end.                           *)
(***************************************************************************)
\* The ID of the return value of the body: that of its last expression.
LirReturnValue == lirFunction.body[Len(lirFunction.body)].id

MaxHintEvents == 3
MaxNotifications == 3
MaxHintValue == 1

HintModules == {"A", "B"}
HintValues == 0..MaxHintValue
HintKinds == {"diagnostics", "hints"}
NothingSent == -1

UpdateModule(module) == [kind |-> "UpdateModule", module |-> module]
CloseModule(module) == [kind |-> "CloseModule", module |-> module]
Shutdown == [kind |-> "Shutdown", module |-> ""]
HintEvents ==
    {UpdateModule(module) : module \in HintModules}
        \cup {CloseModule(module) : module \in HintModules} \cup {Shutdown}

\* Sender::send: an event joins the queue unless the channel is closed.
channel_send(ch, event) ==
    IF ch.closed THEN ch ELSE [ch EXCEPT !.queue = Append(@, event)]

\* Receiver::try_recv: what it can return.
try_recv(ch) ==
    IF ch.queue # <<>> THEN {"Ok"}
    ELSE IF ~ch.senders THEN {"Disconnected"}
    ELSE IF ch.closed THEN {"Empty", "Disconnected"}
    ELSE {"Empty"}

\* Receiver::close
close(ch) == [ch EXCEPT !.closed = TRUE]

\* A cache that reports every value.
send_always(last_sent, module, value) ==
    [last_sent |-> [last_sent EXCEPT ![module] = value], sent |-> TRUE]

\* OutgoingCache::send: the value is reported, and kept, if it is not the
\* one that was last sent for the module.
send(last_sent, module, value) ==
    IF last_sent[module] # value
    THEN [last_sent |-> [last_sent EXCEPT ![module] = value], sent |-> TRUE]
    ELSE [last_sent |-> last_sent, sent |-> FALSE]

\* The client after a call of send: it got the value if it was reported.
Delivered(client, kind, module, value, sent) ==
    IF sent
    THEN [client EXCEPT ![kind][module] = [count |-> @.count + 1, last |-> value]]
    ELSE client

\* Database::new..., OutgoingCache::new: the start of run_server.
HintsInit ==
    /\ incoming_events = [queue |-> <<>>, closed |-> FALSE, senders |-> TRUE]
    /\ hints_finders = {}
    /\ outgoing_diagnostics = [module \in HintModules |-> NothingSent]
    /\ outgoing_hints = [module \in HintModules |-> NothingSent]
    /\ hsPosition = "sleep"
    /\ hsClient = [kind \in HintKinds |->
                      [module \in HintModules |-> [count |-> 0, last |-> NothingSent]]]
    /\ hsLast = [op |-> "none"]
    /\ hsSent = 0

\* The language server sends an event.
SendEvent ==
    /\ incoming_events.senders
    /\ hsSent < MaxHintEvents
    /\ \E event \in HintEvents :
          incoming_events' = channel_send(incoming_events, event)
    /\ hsSent' = hsSent + 1
    /\ UNCHANGED <<hints_finders, outgoing_diagnostics, outgoing_hints, hsPosition,
                   hsClient, hsLast>>

\* The language server drops its sender.
DropSender ==
    /\ incoming_events.senders
    /\ incoming_events' = [incoming_events EXCEPT !.senders = FALSE]
    /\ UNCHANGED <<hints_finders, outgoing_diagnostics, outgoing_hints, hsPosition,
                   hsClient, hsLast, hsSent>>

\* sleep(100 ms) at the start of the server loop.
Sleep ==
    /\ hsPosition = "sleep"
    /\ hsPosition' = "events"
    /\ UNCHANGED <<incoming_events, hints_finders, outgoing_diagnostics, outgoing_hints,
                   hsClient, hsLast, hsSent>>

\* An iteration of the inner loop that receives an event and handles it.
HandleEvent ==
    /\ hsPosition = "events"
    /\ "Ok" \in try_recv(incoming_events)
    /\ LET event == Head(incoming_events.queue)
           received == [incoming_events EXCEPT !.queue = Tail(@)]
           reported == send(outgoing_hints, event.module, 0)
       IN  CASE event.kind = "UpdateModule" ->
                  /\ hsClient["hints"][event.module].count < MaxNotifications
                  /\ incoming_events' = received
                  /\ outgoing_hints' = reported.last_sent
                  /\ hsClient' = Delivered(hsClient, "hints", event.module, 0, reported.sent)
                  /\ hints_finders' = hints_finders \cup {event.module}
                  /\ hsLast' = [op |-> "update", module |-> event.module, hints |-> 0]
             [] event.kind = "CloseModule" ->
                  /\ incoming_events' = received
                  /\ hints_finders' = hints_finders \ {event.module}
                  /\ hsLast' = [op |-> "close", module |-> event.module]
                  /\ UNCHANGED <<outgoing_hints, hsClient>>
             [] event.kind = "Shutdown" ->
                  /\ incoming_events' = close(received)
                  /\ hsLast' = [op |-> "shutdown"]
                  /\ UNCHANGED <<hints_finders, outgoing_hints, hsClient>>
    /\ UNCHANGED <<outgoing_diagnostics, hsPosition, hsSent>>

\* The inner loop ends: no event is there, or the channel is disconnected
\* and the server loop is left.
NoEvent ==
    /\ hsPosition = "events"
    /\ \E result \in try_recv(incoming_events) \ {"Ok"} :
          hsPosition' = IF result = "Disconnected" THEN "stopped" ELSE "round"
    /\ UNCHANGED <<incoming_events, hints_finders, outgoing_diagnostics, outgoing_hints,
                   hsClient, hsLast, hsSent>>

\* The rest of an iteration of the server loop without a hints finder.
NoHintsFinder ==
    /\ hsPosition = "round"
    /\ hints_finders = {}
    /\ hsPosition' = "sleep"
    /\ UNCHANGED <<incoming_events, hints_finders, outgoing_diagnostics, outgoing_hints,
                   hsClient, hsLast, hsSent>>

\* The rest of an iteration of the server loop: the hints finder of some
\* module runs, and its diagnostics and hints are given to the caches.
HintsRound ==
    /\ hsPosition = "round"
    /\ \E module \in hints_finders, diagnostics \in HintValues, hints \in HintValues :
          LET d == send(outgoing_diagnostics, module, diagnostics)
              h == send(outgoing_hints, module, hints)
          IN  /\ hsClient["diagnostics"][module].count < MaxNotifications
              /\ hsClient["hints"][module].count < MaxNotifications
              /\ outgoing_diagnostics' = d.last_sent
              /\ outgoing_hints' = h.last_sent
              /\ hsClient' = Delivered(Delivered(hsClient, "diagnostics", module,
                                                 diagnostics, d.sent),
                                       "hints", module, hints, h.sent)
              /\ hsLast' = [op |-> "round", module |-> module,
                            diagnostics |-> diagnostics, hints |-> hints]
    /\ hsPosition' = "sleep"
    /\ UNCHANGED <<incoming_events, hints_finders, hsSent>>

InitHints == HintsInit /\ IdleExcept("hints")
NextHints ==
    \/ SendEvent /\ FrameExcept("hints")
    \/ DropSender /\ FrameExcept("hints")
    \/ Sleep /\ FrameExcept("hints")
    \/ HandleEvent /\ FrameExcept("hints")
    \/ NoEvent /\ FrameExcept("hints")
    \/ NoHintsFinder /\ FrameExcept("hints")
    \/ HintsRound /\ FrameExcept("hints")
SpecHints == InitHints /\ [][NextHints]_vars

(***************************************************************************)
(* C29.  The hints server after a Shutdown event.                          *)
(***************************************************************************)
\* The server has processed a Shutdown event.
ShutdownProcessed == incoming_events.closed

\* After a Shutdown event no new event is accepted, and the loop is left
\* only when the queued events are handled.
ShutdownDrains ==
    /\ [][ShutdownProcessed =>
             /\ Len(incoming_events'.queue) <= Len(incoming_events.queue)
             /\ incoming_events'.closed]_vars
    /\ [](hsPosition = "stopped" => incoming_events.queue = <<>>)

\* After a Shutdown event no hint-computation round starts: the server is
\* handling the queued events or has left its loop.
NoRoundAfterShutdown ==
    ShutdownProcessed => hsPosition \in {"events", "stopped"}

\* C29: after the hints server has processed a Shutdown event it accepts no
\* new events, handles the events that were already queued, and then leaves
\* its server loop without starting another hint-computation round.
C29_Shutdown == ShutdownDrains /\ []NoRoundAfterShutdown

\* After a Shutdown event, with no event left in the queue and a sender
\* still there, the hints finder of a module has run and its hints were
\* reported to the client.
C29_Witness ==
    /\ ShutdownProcessed
    /\ incoming_events.senders
    /\ incoming_events.queue = <<>>
    /\ hsLast.op = "round"
    /\ hsPosition = "sleep"
    /\ hsSent = MaxHintEvents
    /\ hsClient["hints"][hsLast.module].last = hsLast.hints

(***************************************************************************)
(* C30.  What the hints server reports to the client.                      *)
(***************************************************************************)
\* A step in which a value of the kind was to be reported for the module:
\* the client is notified exactly when the value is not the one it got
\* last for the module, and a notification is never the one before it.
ReportStep(kind, module, value) ==
    LET before == hsClient[kind][module]
        after == hsClient'[kind][module]
    IN  /\ IF value # before.last
           THEN after = [count |-> before.count + 1, last |-> value]
           ELSE after = before
        /\ after.count > before.count => after.last # before.last
        /\ after.last = value
        /\ \A other \in HintModules \ {module} :
              hsClient'[kind][other] = hsClient[kind][other]

\* The server handles an UpdateModule event.
UpdateStep ==
    /\ hsPosition = "events"
    /\ incoming_events.queue # <<>>
    /\ Len(incoming_events'.queue) < Len(incoming_events.queue)
    /\ Head(incoming_events.queue).kind = "UpdateModule"

\* The hints finder of a module runs.
RoundStep == hsPosition = "round" /\ hsPosition' = "sleep" /\ hints_finders # {}

\* The steps of the server that report: an UpdateModule event, which
\* reports empty hints, and a round of a hints finder.
ReportingSteps ==
    /\ UpdateStep =>
          /\ ReportStep("hints", Head(incoming_events.queue).module, 0)
          /\ hsClient'["diagnostics"] = hsClient["diagnostics"]
    /\ RoundStep =>
          /\ hsLast'.op = "round"
          /\ ReportStep("diagnostics", hsLast'.module, hsLast'.diagnostics)
          /\ ReportStep("hints", hsLast'.module, hsLast'.hints)

\* No other step notifies the client.
OtherSteps == ~UpdateStep /\ ~RoundStep => hsClient' = hsClient

\* C30: for each module, the hints server notifies the client exactly when
\* the value to report differs from the value it last reported for that
\* module, so the value most recently delivered to the client always equals
\* the value most recently computed, and two identical notifications for
\* one module are never sent in a row.
C30_NotifyOnChange == [][ReportingSteps /\ OtherSteps]_vars

\* A round computed, for a module, the empty hints that the client had got
\* already when the module was updated: the client was not notified again.
C30_Witness ==
    /\ hsLast.op = "round"
    /\ hsLast.hints = 0
    /\ hsLast.diagnostics = 1
    /\ hsClient["hints"][hsLast.module] = [count |-> 1, last |-> 0]
    /\ hsClient["diagnostics"][hsLast.module] = [count |-> 1, last |-> 1]

(***************************************************************************)
(* The loop of the CLI.  The program does up to MaxProgramSteps times one  *)
(* of: send a text to stdout and wait until it is sent; send a request (a  *)
(* send port of its response channel) to stdin, wait until it is sent,     *)
(* and receive the line from the response channel.  Then it returns or     *)
(* panics.  A fiber that an operation keeps waiting runs on when the       *)
(* operation is among the completed ones.                                  *)
(***************************************************************************)
MaxProgramSteps == 2

TextPacket == 1
RequestPacket == 2
LinePacket == 3

\* Vm::send and Vm::receive on one of the channels of the VM.  The VM is
\* bound as a value, which is computed once.
with_channel(vm, name, st) ==
    [channels |-> [vm.channels EXCEPT ![name] = st.channel],
     completed |-> st.completed, next |-> st.next]
channel_of(vm, name) ==
    ChannelState(vm.channels[name], vm.completed, <<>>, vm.next)
vm_send_to(vm, name, packet) ==
    CHOOSE result \in
        {with_channel(v, name, vm_send(channel_of(v, name), packet)) : v \in {vm}} : TRUE
vm_receive_from(vm, name) ==
    CHOOSE result \in
        {with_channel(v, name, vm_receive(channel_of(v, name))) : v \in {vm}} : TRUE

\* Vm::status for a VM with the fiber of the main function.
vm_status(vm, fiber) ==
    CASE fiber.status = "done" -> "Done"
      [] fiber.status = "panicked" -> "Panicked"
      [] fiber.status = "running" -> "CanRun"
      [] fiber.status = "waiting" ->
            IF \E c \in vm.completed : c.operation = fiber.waiting_for
            THEN "CanRun" ELSE "WaitingForOperations"

\* A stdin service that reads the line and sends no answer.
stdin_run_without_answer(vm, current) ==
    IF \E c \in vm.completed : c.operation = current /\ c.kind = "Received"
    THEN LET c == CHOOSE c \in vm.completed : c.operation = current
             taken == [vm EXCEPT !.completed = @ \ {c}]
         IN  [vm |-> vm_receive_from(taken, "stdin"), current_receive |-> taken.next]
    ELSE [vm |-> vm, current_receive |-> current]

\* StdinService::run: while the current receive is completed, it is taken,
\* a line is read and sent to the channel of the request, and the next
\* receive is started.
RECURSIVE stdin_run(_, _)
stdin_run(vm, current) ==
    IF \E c \in vm.completed : c.operation = current /\ c.kind = "Received"
    THEN LET c == CHOOSE c \in vm.completed : c.operation = current
             answered == vm_send_to([vm EXCEPT !.completed = @ \ {c}],
                                    "response", LinePacket)
         IN  stdin_run(vm_receive_from(answered, "stdin"), answered.next)
    ELSE [vm |-> vm, current_receive |-> current]

\* StdoutService::new, StdinService::new and vm.initialize_for_closure.
CliInit ==
    /\ \E capacity \in 0..1 :
          cliVm = vm_receive_from(
                      vm_receive_from(
                          [channels |-> [stdout |-> create_channel(0),
                                         stdin |-> create_channel(0),
                                         response |-> create_channel(capacity)],
                           completed |-> {}, next |-> 0],
                          "stdout"),
                      "stdin")
    /\ cliStdout = 0
    /\ cliStdin = 1
    /\ cliFiber = [status |-> "running", waiting_for |-> 0, then |-> "continue", steps |-> 0]
    /\ cliPosition = "status"
    /\ cliPrinted = 0

\* match vm.status()
CheckStatus ==
    /\ cliPosition = "status"
    /\ cliPosition' = CASE vm_status(cliVm, cliFiber) = "CanRun" -> "run"
                        [] vm_status(cliVm, cliFiber) = "WaitingForOperations" -> "stdout"
                        [] OTHER -> "ended"
    /\ UNCHANGED <<cliVm, cliFiber, cliStdout, cliStdin, cliPrinted>>

\* vm.run: the fiber takes the operation it waited for and goes on.
FiberWakes ==
    /\ cliPosition = "run"
    /\ cliFiber.status = "waiting"
    /\ vm_status(cliVm, cliFiber) = "CanRun"
    /\ LET c == CHOOSE c \in cliVm.completed : c.operation = cliFiber.waiting_for
           taken == [cliVm EXCEPT !.completed = @ \ {c}]
       IN  IF cliFiber.then = "receive"
           THEN /\ cliVm' = vm_receive_from(taken, "response")
                /\ cliFiber' = [cliFiber EXCEPT !.waiting_for = taken.next,
                                                !.then = "continue"]
           ELSE /\ cliVm' = taken
                /\ cliFiber' = [cliFiber EXCEPT !.status = "running"]
    /\ UNCHANGED <<cliStdout, cliStdin, cliPosition, cliPrinted>>

\* vm.run: the program sends a text to stdout or a request to stdin.
FiberSends ==
    /\ cliPosition = "run"
    /\ cliFiber.status = "running"
    /\ cliFiber.steps < MaxProgramSteps
    /\ \E to \in {"stdout", "stdin"} :
          /\ cliVm' = vm_send_to(cliVm, to,
                                 IF to = "stdout" THEN TextPacket ELSE RequestPacket)
          /\ cliFiber' = [status |-> "waiting", waiting_for |-> cliVm.next,
                          then |-> IF to = "stdout" THEN "continue" ELSE "receive",
                          steps |-> cliFiber.steps + 1]
    /\ UNCHANGED <<cliStdout, cliStdin, cliPosition, cliPrinted>>

\* vm.run: the main function returns or panics.
FiberEnds ==
    /\ cliPosition = "run"
    /\ cliFiber.status = "running"
    /\ \E status \in {"done", "panicked"} :
          cliFiber' = [cliFiber EXCEPT !.status = status]
    /\ UNCHANGED <<cliVm, cliStdout, cliStdin, cliPosition, cliPrinted>>

\* vm.run returns when the fiber cannot run.
RunReturns ==
    /\ cliPosition = "run"
    /\ vm_status(cliVm, cliFiber) # "CanRun"
    /\ cliPosition' = "stdout"
    /\ UNCHANGED <<cliVm, cliFiber, cliStdout, cliStdin, cliPrinted>>

\* stdout.run(&mut vm)
ServeStdout ==
    /\ cliPosition = "stdout"
    /\ LET result == stdout_run(ChannelState(cliVm.channels.stdout, cliVm.completed,
                                             <<>>, cliVm.next),
                                cliStdout, <<>>)
       IN  /\ cliVm' = [channels |-> [cliVm.channels EXCEPT !.stdout = result.st.channel],
                        completed |-> result.st.completed, next |-> result.st.next]
           /\ cliStdout' = result.current_receive
           /\ cliPrinted' = cliPrinted + Len(result.printed)
    /\ cliPosition' = "stdin"
    /\ UNCHANGED <<cliFiber, cliStdin>>

\* stdin.run(&mut vm), and the end of the iteration.
ServeStdin ==
    /\ cliPosition = "stdin"
    /\ \E result \in {stdin_run(cliVm, cliStdin)} :
          /\ cliVm' = result.vm
          /\ cliStdin' = result.current_receive
    /\ cliPosition' = "status"
    /\ UNCHANGED <<cliFiber, cliStdout, cliPrinted>>

InitCli == CliInit /\ IdleExcept("cli")
NextCli ==
    \/ CheckStatus /\ FrameExcept("cli")
    \/ FiberWakes /\ FrameExcept("cli")
    \/ FiberSends /\ FrameExcept("cli")
    \/ FiberEnds /\ FrameExcept("cli")
    \/ RunReturns /\ FrameExcept("cli")
    \/ ServeStdout /\ FrameExcept("cli")
    \/ ServeStdin /\ FrameExcept("cli")
SpecCli == InitCli /\ [][NextCli]_vars

\* The loop and the VM go on: whatever comes next in the loop is done, and
\* a program that can return does so after MaxProgramSteps steps at most.
CliLoop ==
    \/ CheckStatus
    \/ FiberWakes
    \/ FiberSends
    \/ FiberEnds
    \/ RunReturns
    \/ ServeStdout
    \/ ServeStdin
SpecCliLive == SpecCli /\ WF_cliVars(CliLoop)


\* What one step of the loop does to the position in the loop: the loop
\* ends exactly from a status that is neither CanRun nor
\* WaitingForOperations, a waiting VM sends the loop to the services, and
\* the services are run one after the other before the next status check.
LoopStep ==
    /\ cliPosition = "status" =>
          cliPosition' = CASE vm_status(cliVm, cliFiber) = "CanRun" -> "run"
                           [] vm_status(cliVm, cliFiber) = "WaitingForOperations" -> "stdout"
                           [] OTHER -> "ended"
    /\ cliPosition = "run" => cliPosition' \in {"run", "stdout"}
    /\ cliPosition = "stdout" =>
          /\ cliPosition' = "stdin"
          /\ PendingReceivesOf(cliVm.channels.stdout, cliStdout)' = 1
    /\ cliPosition = "stdin" =>
          /\ cliPosition' = "status"
          /\ PendingReceivesOf(cliVm.channels.stdin, cliStdin)' = 1
    /\ cliPosition = "ended" => UNCHANGED cliVars

VmWaits == vm_status(cliVm, cliFiber) = "WaitingForOperations"
VmCanRun == vm_status(cliVm, cliFiber) = "CanRun"
ProgramEnded == cliFiber.status \in {"done", "panicked"}

====
